---- MODULE Spec2Model ----
(***************************************************************************)
(* A model of the offline recovery core of xfsprogs:                       *)
(*   - libxlog/xfs_log_recover.c : log head/tail discovery and the         *)
(*     two-pass transaction replay,                                        *)
(*   - repair/dir2.c             : the version-2 directory checker.        *)
(*                                                                         *)
(* The module holds several specifications over one set of variables.      *)
(* Each specification drives one part of the program and leaves the        *)
(* variables of the other parts at their idle values:                      *)
(*   Spec       : xlog_do_recovery_pass over a circular log image          *)
(*   SpecScan   : xlog_find_zeroed / xlog_find_head / xlog_find_tail       *)
(*   SpecUnpack : xlog_unpack_data over packed record data                 *)
(*   SpecDir    : process_dir2 over directory inodes                       *)
(***************************************************************************)
EXTENDS Integers, Sequences, FiniteSets, TLC

VARIABLES
    (* ---- log replay (xlog_do_recovery_pass) ---- *)
    written,     \* ghost: the operations of the active log, in write order
    disk,        \* the physical log: block number -> block
    head_blk,    \* argument of xlog_do_recovery_pass
    tail_blk,    \* argument of xlog_do_recovery_pass
    pass,        \* argument of xlog_do_recovery_pass
    pc,          \* position inside xlog_do_recovery_pass
    blk_no,      \* local of xlog_do_recovery_pass
    rhash,       \* local of xlog_do_recovery_pass: the in-flight table
    delivered,   \* what xlog_recover_do_trans has been handed, in call order
    nops,        \* ghost: operations consumed by xlog_recover_process_data
    nrecs,       \* ghost: the records processed, in order: header block and data read
    error,       \* return value of xlog_do_recovery_pass
    bufs,        \* buffers held: xlog_get_bp minus xlog_put_bp
    (* ---- head and tail search (xlog_find_zeroed/_head/_tail) ---- *)
    gen,         \* ghost: how the writer produced the image in disk
    zres,        \* what xlog_find_zeroed returned
    hres,        \* what xlog_find_head returned
    tres,        \* what xlog_find_tail returned
    (* ---- record data (xlog_unpack_data) ---- *)
    udata,       \* ghost: the data area as the client wrote it
    uhead,       \* the record header: h_len, h_cycle, h_cycle_data
    upacked,     \* ghost: the data area as it lies on disk
    ubuf,        \* the buffer xlog_unpack_data works on
    (* ---- directory check (process_dir2) ---- *)
    dir0,        \* ghost: the inode and the directory blocks as read
    dir,         \* the inode (dip) and the buffers of the directory blocks
    dctx,        \* ino, the globals no_modify and the caller's ino_discovery
    dres         \* outputs of process_dir2 and the buffer calls it made

replayVars == <<written, disk, head_blk, tail_blk, pass, pc, blk_no, rhash,
                delivered, nops, nrecs, error, bufs>>

scanVars == <<gen, zres, hres, tres>>

unpackVars == <<udata, uhead, upacked, ubuf>>

dirVars == <<dir0, dir, dctx, dres>>

vars == <<replayVars, scanVars, unpackVars, dirVars>>

----------------------------------------------------------------------------
(* Small helpers over sequences.                                           *)

RECURSIVE ConcatAll(_)
ConcatAll(ss) == IF ss = <<>> THEN <<>> ELSE Head(ss) \o ConcatAll(Tail(ss))

\* the least element of a non-empty set of integers
MinOf(S) == CHOOSE x \in S : \A y \in S : x <= y
MaxOf(S) == CHOOSE x \in S : \A y \in S : x >= y

Last(s) == s[Len(s)]

Min(a, b) == IF a < b THEN a ELSE b

----------------------------------------------------------------------------
(* Program constants.                                                      *)

BBSIZE == 512
BTOBB(bytes) == (bytes + BBSIZE - 1) \div BBSIZE
BBTOB(bbs) == bbs * BBSIZE

\* oh_flags bits, as the set of the bits that are on
XLOG_START_TRANS    == "START"
XLOG_COMMIT_TRANS   == "COMMIT"
XLOG_CONTINUE_TRANS == "CONTINUE"
XLOG_WAS_CONT_TRANS == "WAS_CONT"
XLOG_END_TRANS      == "END"
XLOG_UNMOUNT_TRANS  == "UNMOUNT"

XFS_TRANSACTION == "XFS_TRANSACTION"
XFS_LOG         == "XFS_LOG"

EIO          == 5
EFSCORRUPTED == 990
EINVAL       == 22

\* 0xFEEDbabe as a signed 32-bit integer
XLOG_HEADER_MAGIC_NUM == -17958194
\* 0x5452414e, 'TRAN'
XFS_TRANS_HEADER_MAGIC == 1414676814

\* sizeof(xfs_trans_header_t), in 32-bit words: payloads are word sequences
TransHeaderWords == 4

XLOG_RHASH_SIZE == 64
XLOG_RHASH(tid) == tid % XLOG_RHASH_SIZE

----------------------------------------------------------------------------
(* The in-flight transaction table: xlog_recover_* helpers.                *)
(*                                                                         *)
(* A payload is a sequence of 32-bit words.  A transaction is              *)
(*   [r_log_tid, r_lsn, r_theader, r_itemq]                                *)
(* with r_theader the TransHeaderWords words of the header slot and        *)
(* r_itemq the circular item list, here the sequence from the list head    *)
(* (so item->ri_prev of the head is the last element).  An item is         *)
(*   [ri_total, ri_cnt, ri_buf]  with ri_buf the regions added so far.     *)
(* A hash chain is the sequence of its transactions from *q on.            *)

ZeroHeader == [i \in 1..TransHeaderWords |-> 0]

\* in_f->ilf_size: the second 16-bit field of the first word of a region
ilf_size(ptr) == ptr[1] % 65536

\* a lookup that tests the head of the chain and never walks on
find_tid_head_only(q, tid) ==
    IF q # <<>> /\ q[1].r_log_tid = tid THEN 1 ELSE 0

xlog_recover_find_tid(q, tid) ==
    LET hits == {i \in 1..Len(q) : q[i].r_log_tid = tid}
    IN  IF hits = {} THEN 0 ELSE MinOf(hits)      \* 0 stands for NULL

xlog_recover_put_hashq(q, trans) == <<trans>> \o q

xlog_recover_new_tid(q, tid, lsn) ==
    xlog_recover_put_hashq(q, [r_log_tid |-> tid, r_lsn |-> lsn,
                               r_theader |-> ZeroHeader, r_itemq |-> <<>>])

\* trans is the index in q that find_tid returned; the result is the chain
\* without it (the not-found branch cannot be taken for such an index)
xlog_recover_unlink_tid(q, trans) ==
    [i \in 1..(Len(q) - 1) |-> IF i < trans THEN q[i] ELSE q[i + 1]]

xlog_recover_add_item(itemq) ==
    Append(itemq, [ri_total |-> 0, ri_cnt |-> 0, ri_buf |-> <<>>])

\* bcopy(dp, (char *)&trans->r_theader + off, len), off and len in words;
\* a copy that runs past the header slot is reported by CopyOverruns
CopyIntoHeader(hdr, off, dp) ==
    [i \in 1..TransHeaderWords |->
        IF i > off /\ i <= off + Len(dp) THEN dp[i - off] ELSE hdr[i]]

CopyOverruns(off, dp) == off < 0 \/ off + Len(dp) > TransHeaderWords

\* an add that starts a new item for every region
add_to_trans_item_per_region(trans, dp) ==
    IF Len(dp) = 0 THEN [trans |-> trans, ub |-> FALSE]
    ELSE IF trans.r_itemq = <<>> THEN
        [trans |-> [trans EXCEPT
                      !.r_itemq = xlog_recover_add_item(<<>>),
                      !.r_theader = CopyIntoHeader(@, 0, dp)],
         ub |-> CopyOverruns(0, dp)]
    ELSE
        LET q0   == trans.r_itemq
            q1   == IF Last(q0).ri_cnt # 0 THEN xlog_recover_add_item(q0) ELSE q0
            it2  == [Last(q1) EXCEPT !.ri_total = ilf_size(dp),
                                     !.ri_buf = <<dp>>, !.ri_cnt = 1]
        IN  [trans |-> [trans EXCEPT !.r_itemq = [q1 EXCEPT ![Len(q1)] = it2]],
             ub |-> FALSE]

\* The result is [trans, ub]: ub is set where the C code writes outside an
\* allocation (the ASSERTs are compiled out of a production build).
xlog_recover_add_to_trans(trans, dp) ==
    IF Len(dp) = 0 THEN [trans |-> trans, ub |-> FALSE]
    ELSE IF trans.r_itemq = <<>> THEN
        [trans |-> [trans EXCEPT
                      !.r_itemq = IF Len(dp) = TransHeaderWords
                                  THEN xlog_recover_add_item(<<>>) ELSE <<>>,
                      !.r_theader = CopyIntoHeader(@, 0, dp)],
         ub |-> CopyOverruns(0, dp)]
    ELSE
        LET q0   == trans.r_itemq
            q1   == IF Last(q0).ri_total # 0 /\ Last(q0).ri_total = Last(q0).ri_cnt
                    THEN xlog_recover_add_item(q0) ELSE q0
            item == Last(q1)
            it1  == IF item.ri_total = 0
                    THEN [item EXCEPT !.ri_total = ilf_size(dp)] ELSE item
            it2  == [it1 EXCEPT !.ri_buf = Append(@, dp), !.ri_cnt = @ + 1]
        IN  [trans |-> [trans EXCEPT !.r_itemq = [q1 EXCEPT ![Len(q1)] = it2]],
             ub |-> ~(it1.ri_total > it1.ri_cnt)]

xlog_recover_add_to_cont_trans(trans, dp) ==
    IF trans.r_itemq = <<>> THEN
        [trans |-> [trans EXCEPT
                      !.r_itemq = xlog_recover_add_item(<<>>),
                      !.r_theader = CopyIntoHeader(@, TransHeaderWords - Len(dp), dp)],
         ub |-> CopyOverruns(TransHeaderWords - Len(dp), dp)]
    ELSE
        LET q0   == trans.r_itemq
            item == Last(q0)
        IN  IF item.ri_cnt = 0
            THEN [trans |-> trans, ub |-> TRUE]       \* ri_buf[-1]
            ELSE [trans |-> [trans EXCEPT !.r_itemq[Len(q0)].ri_buf[item.ri_cnt] =
                                              @ \o dp],
                  ub |-> FALSE]

xlog_recover_unmount_trans(trans) == 0

\* xlog_recover_free_trans walks the item list from its head and
\* dereferences it even when the list is empty
xlog_recover_free_trans_faults(trans) == trans.r_itemq = <<>>

\* a commit that takes the transaction at the head of the chain
commit_trans_chain_head(q, trans) ==
    [q      |-> xlog_recover_unlink_tid(q, 1),
     error  |-> 0,
     handed |-> <<q[1]>>,
     ub     |-> xlog_recover_free_trans_faults(q[1])]

\* The result is [q, error, handed, ub]: handed is the sequence of the
\* transactions passed to xlog_recover_do_trans (none or one).  The
\* dispatcher is outside this file; it is taken to return 0.
xlog_recover_commit_trans(q, trans) ==
    [q      |-> xlog_recover_unlink_tid(q, trans),
     error  |-> 0,
     handed |-> <<q[trans]>>,
     ub     |-> xlog_recover_free_trans_faults(q[trans])]

----------------------------------------------------------------------------
(* The physical log.                                                       *)
(*                                                                         *)
(* A basic block is a record                                               *)
(*   [w0, h_cycle, h_len, h_lsn, h_tail_lsn, h_num_logops, h_cycle_data,   *)
(*    uuid_ok, ops]                                                        *)
(* w0 is its first 32-bit word.  The h_ fields are what the bytes of the   *)
(* block read as an xlog_rec_header_t (w0 is h_magicno); ops is what the   *)
(* rest of the block reads as log operations.  The first operation of a    *)
(* data block starts at its first word, so its oh_tid is w0: on disk that  *)
(* word holds the cycle number and the record header keeps the original    *)
(* in h_cycle_data.  An LSN is <<cycle, block>>.                           *)

CYCLE_LSN(lsn) == lsn[1]
BLOCK_LSN(lsn) == lsn[2]

GET_CYCLE(b) == IF b.w0 = XLOG_HEADER_MAGIC_NUM THEN b.h_cycle ELSE b.w0

ZeroBlock ==
    [w0 |-> 0, h_cycle |-> 0, h_len |-> 0, h_lsn |-> <<0, 0>>,
     h_tail_lsn |-> <<0, 0>>, h_num_logops |-> 0, h_cycle_data |-> <<>>,
     uuid_ok |-> TRUE, ops |-> <<>>]

\* xlog_bread(log, blk_no, nbblks, bp): the blocks read, or an I/O error
\* when the range leaves the device
xlog_bread_ok(d, blk, nbblks) ==
    blk >= 0 /\ nbblks >= 0 /\ blk + nbblks <= Len(d)

xlog_bread(d, blk, nbblks) == [i \in 1..nbblks |-> d[blk + i]]

\* disk blocks are numbered from 0; the sequence d holds block b at d[b+1]
DiskBlock(d, b) == d[b + 1]

\* an unpack that counts the whole blocks of h_len only
unpack_whole_blocks(rhead, dp) ==
    [i \in 1..Len(dp) |->
        IF i <= rhead.h_len \div BBSIZE
        THEN [dp[i] EXCEPT !.w0 = rhead.h_cycle_data[i]]
        ELSE dp[i]]

xlog_unpack_data(rhead, dp) ==
    [i \in 1..Len(dp) |->
        IF i <= BTOBB(rhead.h_len)
        THEN [dp[i] EXCEPT !.w0 = rhead.h_cycle_data[i]]
        ELSE dp[i]]

\* the operations of an unpacked data block
BlockOps(b) ==
    IF b.ops = <<>> THEN <<>>
    ELSE <<[b.ops[1] EXCEPT !.oh_tid = b.w0]>> \o Tail(b.ops)

\* the operations xlog_recover_process_data finds in [dp, dp + h_len)
RecordOps(rhead, dp) ==
    ConcatAll([i \in 1..Min(BTOBB(rhead.h_len), Len(dp)) |-> BlockOps(dp[i])])

----------------------------------------------------------------------------
(* xlog_recover_process_data.                                              *)
(*                                                                         *)
(* st is [rhash, delivered, nops, error, ub]: the table, the transactions  *)
(* handed to xlog_recover_do_trans so far (each with the pass and, as a    *)
(* ghost, the number of the operation that committed it), the operations   *)
(* consumed so far, the return value, and whether the C code has left      *)
(* defined behaviour; the walk over the operations ends there.             *)

MaskedFlags(oh_flags) ==
    LET f1 == oh_flags \ {XLOG_END_TRANS}
    IN  IF XLOG_WAS_CONT_TRANS \in f1 THEN f1 \ {XLOG_CONTINUE_TRANS} ELSE f1

\* a switch whose default adds the operation as a region
switch_default_adds(st, ohead, hash, trans, passno) ==
    LET q     == st.rhash[hash]
        flags == MaskedFlags(ohead.oh_flags)
    IN  IF flags = {XLOG_COMMIT_TRANS} THEN
            LET r == xlog_recover_commit_trans(q, trans)
            IN  [st EXCEPT !.rhash[hash] = r.q,
                           !.delivered = @ \o
                               [i \in 1..Len(r.handed) |->
                                   [trans |-> r.handed[i], pass |-> passno,
                                    seq |-> st.nops]],
                           !.error = r.error,
                           !.ub = @ \/ r.ub]
        ELSE IF flags = {XLOG_UNMOUNT_TRANS} THEN
            [st EXCEPT !.error = xlog_recover_unmount_trans(q[trans])]
        ELSE IF flags = {XLOG_WAS_CONT_TRANS} THEN
            LET r == xlog_recover_add_to_cont_trans(q[trans], ohead.data)
            IN  [st EXCEPT !.rhash[hash][trans] = r.trans, !.ub = @ \/ r.ub]
        ELSE IF flags = {XLOG_START_TRANS} THEN
            [st EXCEPT !.error = EIO]
        ELSE
            LET r == xlog_recover_add_to_trans(q[trans], ohead.data)
            IN  [st EXCEPT !.rhash[hash][trans] = r.trans, !.ub = @ \/ r.ub]

\* one turn of the while loop on an operation whose tid is in flight:
\* the switch on the flags
ProcessInFlight(st, ohead, hash, trans, passno) ==
    LET q     == st.rhash[hash]
        flags == MaskedFlags(ohead.oh_flags)
    IN  IF flags = {XLOG_COMMIT_TRANS} THEN
            LET r == xlog_recover_commit_trans(q, trans)
            IN  [st EXCEPT !.rhash[hash] = r.q,
                           !.delivered = @ \o
                               [i \in 1..Len(r.handed) |->
                                   [trans |-> r.handed[i], pass |-> passno,
                                    seq |-> st.nops]],
                           !.error = r.error,
                           !.ub = @ \/ r.ub]
        ELSE IF flags = {XLOG_UNMOUNT_TRANS} THEN
            [st EXCEPT !.error = xlog_recover_unmount_trans(q[trans])]
        ELSE IF flags = {XLOG_WAS_CONT_TRANS} THEN
            LET r == xlog_recover_add_to_cont_trans(q[trans], ohead.data)
            IN  [st EXCEPT !.rhash[hash][trans] = r.trans, !.ub = @ \/ r.ub]
        ELSE IF flags = {XLOG_START_TRANS} THEN
            [st EXCEPT !.error = EIO]
        ELSE IF flags = {} \/ flags = {XLOG_CONTINUE_TRANS} THEN
            LET r == xlog_recover_add_to_trans(q[trans], ohead.data)
            IN  [st EXCEPT !.rhash[hash][trans] = r.trans, !.ub = @ \/ r.ub]
        ELSE
            [st EXCEPT !.error = EIO]

RECURSIVE ProcessOps(_, _, _, _)
ProcessOps(st, rhead, ops, passno) ==
    IF ops = <<>> THEN st
    ELSE
        LET ohead == Head(ops)
            st0   == [st EXCEPT !.nops = @ + 1]
        IN  IF ohead.oh_clientid # XFS_TRANSACTION /\ ohead.oh_clientid # XFS_LOG
            THEN [st0 EXCEPT !.error = EIO]
            ELSE
                LET tid   == ohead.oh_tid
                    hash  == XLOG_RHASH(tid)
                    trans == xlog_recover_find_tid(st0.rhash[hash], tid)
                    st1   == IF trans = 0
                             THEN IF XLOG_START_TRANS \in ohead.oh_flags
                                  THEN [st0 EXCEPT !.rhash[hash] =
                                           xlog_recover_new_tid(@, tid, rhead.h_lsn)]
                                  ELSE st0
                             ELSE ProcessInFlight(st0, ohead, hash, trans, passno)
                IN  IF st1.error # 0 \/ st1.ub THEN st1
                    ELSE ProcessOps(st1, rhead, Tail(ops), passno)

\* xlog_header_check_recover is outside this file; the log format is taken
\* to match
xlog_recover_process_data(st, rhead, dp, passno) ==
    ProcessOps(st, rhead, RecordOps(rhead, dp), passno)

----------------------------------------------------------------------------
(* xlog_do_recovery_pass, one action per loop turn.                        *)

l_logBBsize == Len(disk)

ReplayState ==
    [rhash |-> rhash, delivered |-> delivered, nops |-> nops,
     error |-> 0, ub |-> FALSE]

\* the tail of every loop turn: unpack, process, then either leave through
\* bread_err or go round again at next_blk
UnpackAndProcess(rhead, dp, hdr_blk, next_blk) ==
    LET st == xlog_recover_process_data(ReplayState, rhead,
                                        xlog_unpack_data(rhead, dp), pass)
    IN  /\ rhash' = st.rhash
        /\ delivered' = st.delivered
        /\ nops' = st.nops
        /\ nrecs' = Append(nrecs, [hdr_blk |-> hdr_blk, dp |-> dp])
        /\ IF st.ub THEN
               /\ pc' = "undefined"
               /\ UNCHANGED <<error, blk_no>>
           ELSE IF st.error # 0 THEN
               /\ pc' = "bread_err"
               /\ error' = st.error
               /\ UNCHANGED blk_no
           ELSE
               /\ blk_no' = next_blk
               /\ UNCHANGED <<pc, error>>

FailWith(e) ==
    /\ pc' = "bread_err"
    /\ error' = e
    /\ UNCHANGED <<blk_no, rhash, delivered, nops, nrecs>>

\* lines 1129-1139 and 1164: both buffers obtained, the table zeroed
PassEnter ==
    /\ pc = "start"
    /\ bufs' = bufs + 2
    /\ rhash' = [h \in 0..(XLOG_RHASH_SIZE - 1) |-> <<>>]
    /\ error' = 0
    /\ blk_no' = tail_blk
    /\ pc' = IF tail_blk <= head_blk THEN "seq" ELSE "wrap_end"
    /\ UNCHANGED <<written, disk, head_blk, tail_blk, pass, delivered, nops, nrecs>>

\* lines 1140-1157
SeqLoop ==
    /\ pc = "seq"
    /\ blk_no < head_blk
    /\ IF ~xlog_bread_ok(disk, blk_no, 1) THEN FailWith(EIO)
       ELSE LET rhead == DiskBlock(disk, blk_no)
                bblks == BTOBB(rhead.h_len)
            IN  IF bblks > 0 THEN
                    IF ~xlog_bread_ok(disk, blk_no + 1, bblks) THEN FailWith(EIO)
                    ELSE UnpackAndProcess(rhead, xlog_bread(disk, blk_no + 1, bblks),
                                          blk_no, blk_no + bblks + 1)
                ELSE
                    /\ blk_no' = blk_no + bblks + 1
                    /\ nrecs' = Append(nrecs, [hdr_blk |-> blk_no, dp |-> <<>>])
                    /\ UNCHANGED <<pc, error, rhash, delivered, nops>>
    /\ UNCHANGED <<written, disk, head_blk, tail_blk, pass, bufs>>

SeqDone ==
    /\ pc = "seq"
    /\ ~(blk_no < head_blk)
    /\ pc' = "bread_err"
    /\ UNCHANGED <<written, disk, head_blk, tail_blk, pass, blk_no, rhash,
                   delivered, nops, nrecs, error, bufs>>

\* lines 1165-1217: the records that start before the physical end
WrapEndLoop ==
    /\ pc = "wrap_end"
    /\ blk_no < l_logBBsize
    /\ IF ~xlog_bread_ok(disk, blk_no, 1) THEN FailWith(EIO)
       ELSE LET rhead == DiskBlock(disk, blk_no)
                bblks == BTOBB(rhead.h_len)
                blk1  == blk_no + 1
            IN  IF \/ rhead.w0 # XLOG_HEADER_MAGIC_NUM
                   \/ bblks <= 0
                   \/ blk1 > l_logBBsize
                THEN FailWith(EFSCORRUPTED)
                ELSE IF blk1 + bblks <= l_logBBsize THEN
                    UnpackAndProcess(rhead, xlog_bread(disk, blk1, bblks),
                                     blk_no, blk1 + bblks)
                ELSE
                    LET split_bblks == IF blk1 # l_logBBsize
                                       THEN l_logBBsize - blk1 ELSE 0
                    IN  IF ~xlog_bread_ok(disk, 0, bblks - split_bblks)
                        THEN FailWith(EIO)
                        ELSE UnpackAndProcess(rhead,
                                 xlog_bread(disk, blk1, split_bblks) \o
                                 xlog_bread(disk, 0, bblks - split_bblks),
                                 blk_no, blk1 + bblks)
    /\ UNCHANGED <<written, disk, head_blk, tail_blk, pass, bufs>>

\* a second loop that starts at block 0 whatever the first loop ran over
wrap_end_done_from_zero ==
    /\ pc = "wrap_end"
    /\ ~(blk_no < l_logBBsize)
    /\ blk_no' = 0
    /\ pc' = "wrap_start"
    /\ UNCHANGED <<written, disk, head_blk, tail_blk, pass, rhash,
                   delivered, nops, nrecs, error, bufs>>

\* lines 1219-1220
WrapEndDone ==
    /\ pc = "wrap_end"
    /\ ~(blk_no < l_logBBsize)
    /\ blk_no' = blk_no - l_logBBsize
    /\ pc' = "wrap_start"
    /\ UNCHANGED <<written, disk, head_blk, tail_blk, pass, rhash,
                   delivered, nops, nrecs, error, bufs>>

\* lines 1223-1239: the records at the start of the physical log
WrapStartLoop ==
    /\ pc = "wrap_start"
    /\ blk_no < head_blk
    /\ IF ~xlog_bread_ok(disk, blk_no, 1) THEN FailWith(EIO)
       ELSE LET rhead == DiskBlock(disk, blk_no)
                bblks == BTOBB(rhead.h_len)
            IN  IF ~xlog_bread_ok(disk, blk_no + 1, bblks) THEN FailWith(EIO)
                ELSE UnpackAndProcess(rhead, xlog_bread(disk, blk_no + 1, bblks),
                                      blk_no, blk_no + bblks + 1)
    /\ UNCHANGED <<written, disk, head_blk, tail_blk, pass, bufs>>

WrapStartDone ==
    /\ pc = "wrap_start"
    /\ ~(blk_no < head_blk)
    /\ pc' = "bread_err"
    /\ UNCHANGED <<written, disk, head_blk, tail_blk, pass, blk_no, rhash,
                   delivered, nops, nrecs, error, bufs>>

\* lines 1242-1246
PassExit ==
    /\ pc = "bread_err"
    /\ bufs' = bufs - 2
    /\ pc' = "done"
    /\ UNCHANGED <<written, disk, head_blk, tail_blk, pass, blk_no, rhash,
                   delivered, nops, nrecs, error>>

ReplayStep ==
    \/ PassEnter
    \/ SeqLoop
    \/ SeqDone
    \/ WrapEndLoop
    \/ WrapEndDone
    \/ WrapStartLoop
    \/ WrapStartDone
    \/ PassExit

\* the search for head and tail is not running
ScanIdle == gen = <<>> /\ zres = <<>> /\ hres = <<>> /\ tres = <<>>

\* no record data is being unpacked on its own
UnpackIdle == udata = <<>> /\ uhead = <<>> /\ upacked = <<>> /\ ubuf = <<>>

DirIdle == dir0 = <<>> /\ dir = <<>> /\ dctx = <<>> /\ dres = <<>>

NextReplay == ReplayStep /\ UNCHANGED <<scanVars, unpackVars, dirVars>>

----------------------------------------------------------------------------
(* Log images for the replay: what the log writer leaves on disk.          *)
(*                                                                         *)
(* The active log is a sequence of operations, cut into data blocks of     *)
(* OpsPerBB operations and into records of at most RecDataBBs data         *)
(* blocks, each behind its header block, laid out from tail_blk round the  *)
(* physical end of a log of LogBBs blocks.  Blocks written after the wrap  *)
(* carry the next cycle number.                                            *)

LogBBs     == 8
OpsPerBB   == 2
RecDataBBs == 2

MkOp(tid, flags, data) ==
    [oh_tid |-> tid, oh_flags |-> flags, oh_clientid |-> XFS_TRANSACTION,
     data |-> data]

\* the k-th operation of a client's script; payload words name their origin
ScriptOp(tid, k, kind) ==
    LET u == tid * 1000 + k * 10
    IN  CASE kind = "S"  -> MkOp(tid, {XLOG_START_TRANS}, <<>>)
          [] kind = "H"  -> MkOp(tid, {}, <<XFS_TRANS_HEADER_MAGIC, u + 1, u + 2, u + 3>>)
          [] kind = "R1" -> MkOp(tid, {}, <<65536 + 1, u + 1>>)
          [] kind = "R2" -> MkOp(tid, {}, <<65536 + 2, u + 1>>)
          [] kind = "Rb" -> MkOp(tid, {}, <<u + 1, u + 2>>)
          [] kind = "R0" -> MkOp(tid, {}, <<65536, u + 1>>)
          [] kind = "C"  -> MkOp(tid, {XLOG_COMMIT_TRANS}, <<>>)

Script(tid, kinds) == [k \in 1..Len(kinds) |-> ScriptOp(tid, k, kinds[k])]

RECURSIVE Interleave(_, _)
Interleave(a, b) ==
    IF a = <<>> THEN {b}
    ELSE IF b = <<>> THEN {a}
    ELSE {<<Head(a)>> \o r : r \in Interleave(Tail(a), b)} \cup
         {<<Head(b)>> \o r : r \in Interleave(a, Tail(b))}

\* the tids of the clients: two that share a hash chain and one that does not
ClientTids == <<1, 65, 2>>
FirstTid == ClientTids[1]

\* the first client: committed with two items, committed with a two-region
\* item, never committed, and started before the tail
FirstClientScripts ==
    { <<"S", "H", "R1", "R1", "C">>,
      <<"S", "H", "R2", "Rb", "C">>,
      <<"S", "H", "R1">>,
      <<"R1", "C">> }

\* the second client: a tid in another hash bucket or one in the same bucket
SecondClients ==
    { [tid |-> ClientTids[3], kinds |-> <<"S", "H", "C">>],
      [tid |-> ClientTids[2], kinds |-> <<"S", "H", "C">>],
      [tid |-> ClientTids[2], kinds |-> <<"S">>] }


\* a ticket, and with it its tid, is used again by a later transaction
ReusedTidScript(a) ==
    [k \in 1..3 |-> ScriptOp(FirstTid, Len(a) + k, <<"S", "H", "C">>[k])]

\* every value of oh_flags
FlagSets ==
    SUBSET {XLOG_START_TRANS, XLOG_COMMIT_TRANS, XLOG_CONTINUE_TRANS,
            XLOG_WAS_CONT_TRANS, XLOG_END_TRANS, XLOG_UNMOUNT_TRANS}

\* a transaction with one operation that carries the flags f, as the first
\* or as the second region of its item
FlaggedScripts(f) ==
    { [Script(FirstTid, <<"S", "H", "R2", "Rb", "C">>) EXCEPT ![3].oh_flags = f],
      [Script(FirstTid, <<"S", "H", "R2", "Rb", "C">>) EXCEPT ![4].oh_flags = f] }

\* a payload cut into parts: the first goes out flagged CONTINUE, the last
\* WAS_CONT and those between both
SplitOps(tid, parts) ==
    [k \in 1..Len(parts) |->
        MkOp(tid,
             (IF k > 1 THEN {XLOG_WAS_CONT_TRANS} ELSE {}) \cup
             (IF k < Len(parts) THEN {XLOG_CONTINUE_TRANS} ELSE {}),
             parts[k])]

\* transactions with a payload that the writer had to cut at the end of a
\* record: a region in two and in three parts, the header in two and in
\* three parts, and a region whose first part has no room for any data
SplitScripts ==
    LET S  == ScriptOp(FirstTid, 1, "S")
        H  == ScriptOp(FirstTid, 2, "H")
        R1 == ScriptOp(FirstTid, 3, "R1")
        Rb == ScriptOp(FirstTid, 6, "Rb")
        C  == ScriptOp(FirstTid, 9, "C")
        M  == XFS_TRANS_HEADER_MAGIC
    IN  { <<S, H>> \o SplitOps(FirstTid, <<<<65538>>, <<1041>>>>) \o <<Rb, C>>,
          <<S, H>> \o SplitOps(FirstTid, <<<<65537>>, <<1041>>, <<1042>>>>) \o <<C>>,
          <<S>> \o SplitOps(FirstTid, <<<<M, 1021>>, <<1022, 1023>>>>) \o <<R1, C>>,
          <<S>> \o SplitOps(FirstTid, <<<<M>>, <<1021>>, <<1022, 1023>>>>) \o <<R1, C>>,
          <<S, H, R1>> \o SplitOps(FirstTid, <<<<>>, <<65537, 1051>>>>) \o <<C>> }

\* items whose first region declares no region at all, and an item that is
\* followed by more regions than its first region declares
OddTotalScripts ==
    { Script(FirstTid, <<"S", "H", "R0", "C">>),
      Script(FirstTid, <<"S", "H", "R1", "R0", "Rb", "C">>),
      Script(FirstTid, <<"S", "H", "R2", "Rb", "Rb", "C">>) }

ActiveLogs ==
    UNION { Interleave(Script(FirstTid, a), Script(b.tid, b.kinds)) :
              a \in FirstClientScripts, b \in SecondClients }
    \cup { Script(FirstTid, a) \o ReusedTidScript(a) : a \in FirstClientScripts }
    \cup UNION { FlaggedScripts(f) : f \in FlagSets }
    \cup { <<>> }
    \cup SplitScripts
    \cup OddTotalScripts

NumDataBBs(ops) == (Len(ops) + OpsPerBB - 1) \div OpsPerBB
NumRecords(ops) == (NumDataBBs(ops) + RecDataBBs - 1) \div RecDataBBs
NumLogBBs(ops)  == NumDataBBs(ops) + NumRecords(ops)

\* the operations of data block j (from 1) of the active log
BBOps(ops, j) ==
    SubSeq(ops, (j - 1) * OpsPerBB + 1, Min(j * OpsPerBB, Len(ops)))

\* the data blocks of record r (from 1)
RecFirstBB(r) == (r - 1) * RecDataBBs + 1
RecNumBBs(ops, r) == Min(RecDataBBs, NumDataBBs(ops) - (r - 1) * RecDataBBs)

\* the block written at offset o (from 0) of the active log, stamped with cycle
WrittenBlock(ops, tail, o, cycle, phys) ==
    LET r == (o \div (RecDataBBs + 1)) + 1
        i == o % (RecDataBBs + 1)
    IN  IF i = 0 THEN
            [ZeroBlock EXCEPT
                !.w0 = XLOG_HEADER_MAGIC_NUM,
                !.h_cycle = cycle,
                !.h_len = BBTOB(RecNumBBs(ops, r)) - 100,
                !.h_lsn = <<cycle, phys>>,
                !.h_tail_lsn = <<1, tail>>,
                !.h_num_logops =
                    Len(ConcatAll([k \in 1..RecNumBBs(ops, r) |->
                                      BBOps(ops, RecFirstBB(r) + k - 1)])),
                !.h_cycle_data =
                    [k \in 1..RecNumBBs(ops, r) |->
                        BBOps(ops, RecFirstBB(r) + k - 1)[1].oh_tid]]
        ELSE
            LET bops == BBOps(ops, RecFirstBB(r) + i - 1)
            IN  [ZeroBlock EXCEPT
                    !.w0 = cycle,
                    !.ops = <<[bops[1] EXCEPT !.oh_tid = cycle]>> \o Tail(bops)]

LogImage(ops, tail) ==
    [p1 \in 1..LogBBs |->
        LET phys == p1 - 1
            o    == (phys - tail) % LogBBs
        IN  IF o < NumLogBBs(ops)
            THEN WrittenBlock(ops, tail, o, IF tail + o < LogBBs THEN 1 ELSE 2, phys)
            ELSE ZeroBlock]

Passes == {1, 2}

InitReplay ==
    /\ written \in ActiveLogs
    /\ NumLogBBs(written) < LogBBs
    /\ tail_blk \in 0..(LogBBs - 1)
    /\ head_blk = (tail_blk + NumLogBBs(written)) % LogBBs
    /\ disk = LogImage(written, tail_blk)
    /\ pass \in Passes
    /\ pc = "start"
    /\ blk_no = 0
    /\ rhash = <<>>
    /\ delivered = <<>>
    /\ nops = 0
    /\ nrecs = <<>>
    /\ error = 0
    /\ bufs = 0
    /\ ScanIdle
    /\ UnpackIdle
    /\ DirIdle

Spec == InitReplay /\ [][NextReplay]_vars

----------------------------------------------------------------------------
(* Finding the head and the tail of the log.                               *)
(*                                                                         *)
(* The functions read the device d; a block number result of -1 is the C   *)
(* code's "nothing found".  The buffers are obtained at the size asked     *)
(* for, so xlog_find_verify_cycle reads its range in one piece.            *)

\* the number of in-core logs; the scan windows below are this many records
\* long (the source has 8 logs of up to 32k: windows of 512 and 64 blocks)
XLOG_MAX_ICLOGS == 2

\* BTOBB(XLOG_MAX_RECORD_BSIZE): the blocks of the largest record
MaxRecordBBs == RecDataBBs + 1

\* BTOBB(XLOG_MAX_ICLOGS << XLOG_MAX_RECORD_BSHIFT)
NumScanBBlks == XLOG_MAX_ICLOGS * MaxRecordBBs

BLK_AVG(blk1, blk2) == (blk1 + blk2) \div 2

\* a search that stops at its first probe
find_cycle_start_one_probe(d, first_blk, last_blk, cycle) ==
    [error |-> 0, first_blk |-> first_blk,
     last_blk |-> BLK_AVG(first_blk, last_blk)]

\* a search that never moves *last_blk
find_cycle_start_keeps_last(d, first_blk, last_blk, cycle) ==
    [error |-> 0, first_blk |-> last_blk - 1, last_blk |-> last_blk]

\* The result is [error, first_blk, last_blk]: the return value, the local
\* first_blk when the loop is left and *last_blk.
RECURSIVE xlog_find_cycle_start(_, _, _, _)
xlog_find_cycle_start(d, first_blk, last_blk, cycle) ==
    LET mid_blk == BLK_AVG(first_blk, last_blk)
    IN  IF mid_blk = first_blk \/ mid_blk = last_blk
        THEN [error |-> 0, first_blk |-> first_blk, last_blk |-> last_blk]
        ELSE IF ~xlog_bread_ok(d, mid_blk, 1)
        THEN [error |-> EIO, first_blk |-> first_blk, last_blk |-> last_blk]
        ELSE IF GET_CYCLE(DiskBlock(d, mid_blk)) = cycle
        THEN xlog_find_cycle_start(d, first_blk, mid_blk, cycle)
        ELSE xlog_find_cycle_start(d, mid_blk, last_blk, cycle)

\* The for loop makes one turn, with i = start_blk and bcount = nbblks; a
\* match at any j leaves through "error = i", a failed read through the
\* error code, and both are returned as the block number.
xlog_find_verify_cycle(d, start_blk, nbblks, stop_on_cycle_no) ==
    LET i == start_blk
    IN  IF ~xlog_bread_ok(d, i, nbblks) THEN EIO
        ELSE IF \E j \in 0..(nbblks - 1) :
                    GET_CYCLE(DiskBlock(d, i + j)) = stop_on_cycle_no
        THEN i
        ELSE -1

\* The same with a buffer of bufblks blocks (1 <= bufblks <= nbblks), as
\* when xlog_get_bp fails for the larger sizes: the for loop reads the range
\* in pieces of bufblks blocks, i is the first block of the piece, and a
\* match at any j of the piece leaves through "error = i".
RECURSIVE VerifyCycleFrom(_, _, _, _, _, _)
VerifyCycleFrom(d, i, start_blk, nbblks, stop_on_cycle_no, bufblks) ==
    IF ~(i < start_blk + nbblks) THEN -1
    ELSE LET bcount == Min(bufblks, start_blk + nbblks - i)
         IN  IF ~xlog_bread_ok(d, i, bcount) THEN EIO
             ELSE IF \E j \in 0..(bcount - 1) :
                         GET_CYCLE(DiskBlock(d, i + j)) = stop_on_cycle_no
             THEN i
             ELSE VerifyCycleFrom(d, i + bufblks, start_blk, nbblks,
                                  stop_on_cycle_no, bufblks)

\* the UUID of a record header is compared with the one of the mount
xlog_header_check_mount(head) == IF head.uuid_ok THEN 0 ELSE EFSCORRUPTED

\* a search that moves last_blk to every header it finds
verify_log_record_always_backs_up(d, start_blk, last_blk, extra_bblks) ==
    LET headers == {i \in 0..(last_blk - 1) :
                       i >= start_blk /\ DiskBlock(d, i).w0 = XLOG_HEADER_MAGIC_NUM}
    IN  IF ~xlog_bread_ok(d, start_blk, last_blk - start_blk)
        THEN [error |-> EIO, last_blk |-> last_blk]
        ELSE IF headers = {} THEN
            [error |-> IF last_blk <= 0 \/ start_blk <= 0 THEN -1 ELSE EIO,
             last_blk |-> last_blk]
        ELSE IF xlog_header_check_mount(DiskBlock(d, MaxOf(headers))) # 0
        THEN [error |-> EFSCORRUPTED, last_blk |-> last_blk]
        ELSE [error |-> 0, last_blk |-> MaxOf(headers)]

\* The result is [error, last_blk].
xlog_find_verify_log_record(d, start_blk, last_blk, extra_bblks) ==
    LET num_blks == last_blk - start_blk
        headers  == {i \in 0..(last_blk - 1) :
                        i >= start_blk /\ DiskBlock(d, i).w0 = XLOG_HEADER_MAGIC_NUM}
    IN  IF ~xlog_bread_ok(d, start_blk, num_blks)
        THEN [error |-> EIO, last_blk |-> last_blk]
        ELSE IF headers = {} THEN
            \* the loop runs off block 0 (-1) or below start_blk (EIO)
            [error |-> IF last_blk <= 0 \/ start_blk <= 0 THEN -1 ELSE EIO,
             last_blk |-> last_blk]
        ELSE
            LET i    == MaxOf(headers)
                head == DiskBlock(d, i)
            IN  IF xlog_header_check_mount(head) # 0
                THEN [error |-> xlog_header_check_mount(head), last_blk |-> last_blk]
                ELSE [error |-> 0,
                      last_blk |-> IF last_blk - i + extra_bblks # BTOBB(head.h_len) + 1
                                   THEN i ELSE last_blk]

\* the partially zeroed log (lines 711-753); the result is as for
\* xlog_find_zeroed
FindFirstZeroed(d) ==
    LET cs == xlog_find_cycle_start(d, 0, Len(d) - 1, 0)
        num_scan_bblks == Min(NumScanBBlks, cs.last_blk)
        start_blk == cs.last_blk - num_scan_bblks
        new_blk == xlog_find_verify_cycle(d, start_blk, num_scan_bblks, 0)
        vr == xlog_find_verify_log_record(d, start_blk,
                  IF new_blk # -1 THEN new_blk ELSE cs.last_blk, 0)
    IN  IF cs.error # 0
        THEN [error |-> cs.error, blk_no |-> 0, assigned |-> FALSE,
              released |-> TRUE]
        ELSE IF vr.error # 0
        THEN [error |-> vr.error, blk_no |-> 0, assigned |-> FALSE,
              released |-> TRUE]
        ELSE [error |-> -1, blk_no |-> vr.last_blk, assigned |-> TRUE,
              released |-> TRUE]

\* a test for the zeroed log that looks at the last block as well
find_zeroed_both_ends(d) ==
    LET first_cycle == GET_CYCLE(DiskBlock(d, 0))
        last_cycle  == GET_CYCLE(DiskBlock(d, Len(d) - 1))
    IN  IF first_cycle = 0 /\ last_cycle = 0
        THEN [error |-> -1, blk_no |-> 0, assigned |-> TRUE, released |-> TRUE]
        ELSE IF last_cycle # 0
        THEN [error |-> 0, blk_no |-> 0, assigned |-> FALSE, released |-> TRUE]
        ELSE IF first_cycle # 1
        THEN [error |-> EINVAL, blk_no |-> 0, assigned |-> FALSE,
              released |-> FALSE]
        ELSE FindFirstZeroed(d)

\* The result is [error, blk_no, assigned, released]: assigned tells whether
\* *blk_no was stored to, released whether the buffer of line 682 was put
\* back before the return.
xlog_find_zeroed(d) ==
    LET log_bbnum   == Len(d)
        first_cycle == GET_CYCLE(DiskBlock(d, 0))
        last_cycle  == GET_CYCLE(DiskBlock(d, log_bbnum - 1))
    IN  IF first_cycle = 0
        THEN [error |-> -1, blk_no |-> 0, assigned |-> TRUE, released |-> TRUE]
        ELSE IF last_cycle # 0
        THEN [error |-> 0, blk_no |-> 0, assigned |-> FALSE, released |-> TRUE]
        ELSE IF first_cycle # 1
        THEN [error |-> EINVAL, blk_no |-> 0, assigned |-> FALSE,
              released |-> FALSE]
        ELSE FindFirstZeroed(d)

\* the validation of the head against the window of the in-core logs
\* (lines 358-415); the result is the head block it settles on
VerifyHeadCycles(d, head, stop_on_cycle) ==
    LET log_bbnum == Len(d)
    IN  IF head >= NumScanBBlks THEN
            LET new_blk == xlog_find_verify_cycle(d, head - NumScanBBlks,
                                                  NumScanBBlks, stop_on_cycle)
            IN  IF new_blk # -1 THEN new_blk ELSE head
        ELSE
            LET end_blk == xlog_find_verify_cycle(d,
                               log_bbnum - NumScanBBlks + head,
                               NumScanBBlks - head, stop_on_cycle - 1)
                new_blk == xlog_find_verify_cycle(d, 0, head, stop_on_cycle)
            IN  IF end_blk # -1 THEN end_blk
                ELSE IF new_blk # -1 THEN new_blk ELSE head

\* bad_blk: the head is moved off the middle of a record (lines 417-459);
\* the result is [error, head]
VerifyHeadRecord(d, head) ==
    LET log_bbnum == Len(d)
    IN  IF head >= MaxRecordBBs THEN
            LET vr == xlog_find_verify_log_record(d, head - MaxRecordBBs,
                                                  head, 0)
            IN  [error |-> IF vr.error = -1 THEN EIO ELSE vr.error,
                 head_blk |-> vr.last_blk]
        ELSE
            LET vr == xlog_find_verify_log_record(d, 0, head, 0)
                v2 == xlog_find_verify_log_record(d,
                          log_bbnum - MaxRecordBBs + head, log_bbnum, head)
            IN  IF vr.error = -1 THEN
                    [error |-> IF v2.error = -1 THEN EIO ELSE v2.error,
                     head_blk |-> IF v2.last_blk # log_bbnum
                                  THEN v2.last_blk ELSE head]
                ELSE [error |-> vr.error, head_blk |-> vr.last_blk]

\* The result is [error, head_blk, assigned]: assigned is FALSE when
\* *return_head_blk holds a value that was never stored.
xlog_find_head(d) ==
    LET log_bbnum == Len(d)
        z == xlog_find_zeroed(d)
        first_half_cycle == GET_CYCLE(DiskBlock(d, 0))
        last_half_cycle  == GET_CYCLE(DiskBlock(d, log_bbnum - 1))
        stop_on_cycle == IF first_half_cycle = last_half_cycle
                         THEN last_half_cycle - 1 ELSE last_half_cycle
        cs == IF first_half_cycle = last_half_cycle
              THEN [error |-> 0, last_blk |-> log_bbnum]
              ELSE xlog_find_cycle_start(d, 0, log_bbnum - 1, last_half_cycle)
        vh == VerifyHeadRecord(d, VerifyHeadCycles(d, cs.last_blk, stop_on_cycle))
    IN  IF z.error = -1
        THEN [error |-> 0, head_blk |-> z.blk_no, assigned |-> z.assigned]
        ELSE IF z.error # 0
        THEN [error |-> z.error, head_blk |-> 0, assigned |-> FALSE]
        ELSE IF cs.error # 0
        THEN [error |-> cs.error, head_blk |-> 0, assigned |-> FALSE]
        ELSE IF vh.error # 0
        THEN [error |-> vh.error, head_blk |-> 0, assigned |-> FALSE]
        ELSE [error |-> 0,
              head_blk |-> IF vh.head_blk = log_bbnum THEN 0 ELSE vh.head_blk,
              assigned |-> TRUE]

\* the flags of the operation header at the start of a block
FirstOpFlags(b) == IF b.ops = <<>> THEN {} ELSE b.ops[1].oh_flags

\* a search for the record header from the physical end first
find_sync_record_end_first(d, head) ==
    LET hdrs == {i \in 0..(Len(d) - 1) :
                    DiskBlock(d, i).w0 = XLOG_HEADER_MAGIC_NUM}
    IN  IF hdrs = {} THEN [found |-> 0, i |-> -1]
        ELSE [found |-> IF MaxOf(hdrs) < head THEN 1 ELSE 2, i |-> MaxOf(hdrs)]

\* the two loops that look for a record header (lines 538-561); the result
\* is [found, i]
FindSyncRecord(d, head) ==
    LET below == {i \in 0..(head - 1) :
                     DiskBlock(d, i).w0 = XLOG_HEADER_MAGIC_NUM}
        above == {i \in head..(Len(d) - 1) :
                     DiskBlock(d, i).w0 = XLOG_HEADER_MAGIC_NUM}
    IN  IF below # {} THEN [found |-> 1, i |-> MaxOf(below)]
        ELSE IF above # {} THEN [found |-> 2, i |-> MaxOf(above)]
        ELSE [found |-> 0, i |-> -1]

\* an unmount test that trusts the flag without counting the operations
unmount_test_ignores_logops(d, i, head) ==
    /\ head = (i + 2) % Len(d)
    /\ XLOG_UNMOUNT_TRANS \in FirstOpFlags(DiskBlock(d, (i + 1) % Len(d)))

\* the test for the unmount record (lines 605-625)
IsUnmountRecord(d, i, head) ==
    LET after_umount_blk == (i + 2) % Len(d)
        umount_data_blk  == (i + 1) % Len(d)
    IN  /\ head = after_umount_blk
        /\ DiskBlock(d, i).h_num_logops = 1
        /\ XLOG_UNMOUNT_TRANS \in FirstOpFlags(DiskBlock(d, umount_data_blk))

\* The result is [error, head_blk, tail_blk, found, l_prev_block,
\* l_curr_cycle, released, assigned]; g is what *head_blk holds when
\* xlog_find_head left it unassigned, released whether the buffer was put
\* back, assigned whether *head_blk was stored to.
xlog_find_tail(d, g) ==
    LET h     == xlog_find_head(d)
        head  == IF h.assigned THEN h.head_blk ELSE g
        sr    == FindSyncRecord(d, head)
        rhead == DiskBlock(d, sr.i)
        none  == [error |-> 0, head_blk |-> head, tail_blk |-> 0, found |-> 0,
                  l_prev_block |-> 0, l_curr_cycle |-> 0, released |-> TRUE,
                  assigned |-> h.assigned]
    IN  IF h.error # 0 THEN [none EXCEPT !.error = h.error]
        ELSE IF head = 0 /\ GET_CYCLE(DiskBlock(d, 0)) = 0 THEN none
        ELSE IF sr.found = 0 THEN [none EXCEPT !.error = EIO, !.released = FALSE]
        ELSE [none EXCEPT
                 !.found = sr.found,
                 !.l_prev_block = sr.i,
                 !.l_curr_cycle = rhead.h_cycle + (IF sr.found = 2 THEN 1 ELSE 0),
                 !.tail_blk = IF IsUnmountRecord(d, sr.i, head)
                              THEN (sr.i + 2) % Len(d)
                              ELSE BLOCK_LSN(rhead.h_tail_lsn)]

----------------------------------------------------------------------------
(* Log images for the search: what the log writer leaves on a device that  *)
(* was zeroed when it was made.                                            *)
(*                                                                         *)
(* The writer appends records from block 0 on and goes round the device;   *)
(* every block is stamped with the cycle of the round that wrote it.  gen  *)
(* is [L, p, n, last, back, lost]: the size of the device, the data blocks *)
(* of a record, the number of such records, the record written last, how   *)
(* many records the tail lags behind, and the block whose latest write     *)
(* never reached the device (-1 for none).                                 *)

\* the log is at least as long as the window of the in-core logs
ScanLogSizes == {NumScanBBlks, NumScanBBlks + 2}

\* the record written last: none, an unmount record, and three records that
\* miss one mark of an unmount record each
NoLastRecord == [nbb |-> 0, nops |-> 0, um |-> FALSE]
UnmountRecord == [nbb |-> 1, nops |-> 1, um |-> TRUE]
LastRecords ==
    { NoLastRecord, UnmountRecord,
      [nbb |-> 1, nops |-> 1, um |-> FALSE],
      [nbb |-> 1, nops |-> 2, um |-> TRUE],
      [nbb |-> 2, nops |-> 1, um |-> TRUE] }

\* the blocks written in all
StreamLen(g) ==
    g.n * (g.p + 1) + (IF g.last.nbb > 0 THEN g.last.nbb + 1 ELSE 0)

\* the block written as the o-th (from 0) of the stream
StreamBlock(g, o) ==
    LET normal == g.n * (g.p + 1)
        inlast == o >= normal
        start  == IF inlast THEN normal ELSE (o \div (g.p + 1)) * (g.p + 1)
        i      == o - start
        nbb    == IF inlast THEN g.last.nbb ELSE g.p
        cycle  == (o \div g.L) + 1
        tail   == IF start - g.back * (g.p + 1) > 0
                  THEN start - g.back * (g.p + 1) ELSE 0
    IN  IF i = 0 THEN
            [ZeroBlock EXCEPT
                !.w0 = XLOG_HEADER_MAGIC_NUM,
                !.h_cycle = cycle,
                !.h_len = BBTOB(nbb) - 100,
                !.h_lsn = <<cycle, o % g.L>>,
                !.h_tail_lsn = <<(tail \div g.L) + 1, tail % g.L>>,
                !.h_num_logops = IF inlast THEN g.last.nops ELSE g.p,
                !.h_cycle_data = [k \in 1..nbb |-> XLOG_RHASH_SIZE + k]]
        ELSE
            [ZeroBlock EXCEPT
                !.w0 = cycle,
                !.ops = <<[oh_tid |-> cycle, oh_clientid |-> XFS_LOG, data |-> <<>>,
                           oh_flags |-> IF inlast /\ g.last.um /\ i = 1
                                        THEN {XLOG_UNMOUNT_TRANS} ELSE {}]>>]

\* what block b of the device holds at the end
ScanImage(g) ==
    [b1 \in 1..g.L |->
        LET b == b1 - 1
            T == StreamLen(g)
            o == b + g.L * ((T - 1 - b) \div g.L) - (IF b = g.lost THEN g.L ELSE 0)
        IN  IF b >= T \/ o < 0 THEN ZeroBlock ELSE StreamBlock(g, o)]

ScanGens ==
    { g \in [L : ScanLogSizes, p : 1..RecDataBBs, n : 0..(3 * (NumScanBBlks + 2)),
             last : LastRecords, back : 0..1, lost : -1..(NumScanBBlks + 1)] :
        /\ StreamLen(g) < 3 * g.L
        /\ g.lost < g.L
        /\ g.lost < StreamLen(g) }

ReplayIdle ==
    /\ written = <<>> /\ head_blk = 0 /\ tail_blk = 0 /\ pass = 0 /\ blk_no = 0
    /\ rhash = <<>> /\ delivered = <<>> /\ nops = 0 /\ nrecs = <<>>
    /\ error = 0 /\ bufs = 0

InitScan ==
    /\ gen \in ScanGens
    /\ disk = ScanImage(gen)
    /\ pc = "image"
    /\ zres = <<>> /\ hres = <<>> /\ tres = <<>>
    /\ ReplayIdle
    /\ UnpackIdle
    /\ DirIdle

\* what an output argument that was never stored to may hold
Unassigned(d) == 0..Len(d)

ScanZeroed ==
    /\ pc = "image"
    /\ zres' = xlog_find_zeroed(disk)
    /\ pc' = "zeroed"
    /\ UNCHANGED <<gen, disk, hres, tres>>

ScanHead ==
    /\ pc = "zeroed"
    /\ LET h == xlog_find_head(disk)
       IN  \E g \in IF h.error = 0 /\ ~h.assigned THEN Unassigned(disk) ELSE {0} :
               hres' = IF h.error = 0 /\ ~h.assigned
                       THEN [h EXCEPT !.head_blk = g] ELSE h
    /\ pc' = "head"
    /\ UNCHANGED <<gen, disk, zres, tres>>

ScanTail ==
    /\ pc = "head"
    /\ LET h == xlog_find_head(disk)
       IN  \E g \in IF h.error = 0 /\ ~h.assigned THEN Unassigned(disk) ELSE {0} :
               tres' = xlog_find_tail(disk, g)
    /\ pc' = "tail"
    /\ UNCHANGED <<gen, disk, zres, hres>>

NextScan ==
    /\ \/ ScanZeroed
       \/ ScanHead
       \/ ScanTail
    /\ UNCHANGED <<written, head_blk, tail_blk, pass, blk_no, rhash, delivered,
                   nops, nrecs, error, bufs>>
    /\ UNCHANGED <<unpackVars, dirVars>>

SpecScan == InitScan /\ [][NextScan]_vars

----------------------------------------------------------------------------
(* Packing and unpacking the data of a record.                             *)
(*                                                                         *)
(* The buffer is a sequence of basic blocks [w0, rest]: the first word and *)
(* the bytes after it.  The writer packs a data area of h_len bytes before *)
(* it goes to disk; the buffer read back may be longer than the record.    *)

UnpackBBs == 3

UnpackWords == {1, 9}

UnpackBuffers ==
    [1..UnpackBBs -> [w0 : UnpackWords, rest : UnpackWords]]

\* record lengths: whole blocks and lengths that end inside a block
UnpackLens == {BBTOB(n) - c : n \in 1..UnpackBBs, c \in {0, 100}} \cup {0}

\* the writer's side: the first word of every block of the data area goes
\* to h_cycle_data and the cycle number takes its place
xlog_pack_data(h_len, cycle, dp) ==
    [head |-> [h_len |-> h_len, h_cycle |-> cycle,
               h_cycle_data |-> [i \in 1..BTOBB(h_len) |-> dp[i].w0]],
     dp   |-> [i \in 1..Len(dp) |->
                 IF i <= BTOBB(h_len) THEN [dp[i] EXCEPT !.w0 = cycle] ELSE dp[i]]]

InitUnpack ==
    /\ udata \in UnpackBuffers
    /\ uhead = <<>>
    /\ upacked = <<>>
    /\ ubuf = udata
    /\ pc = "written"
    /\ disk = <<>>
    /\ ReplayIdle
    /\ ScanIdle
    /\ DirIdle

PackRecord ==
    /\ pc = "written"
    /\ \E h_len \in UnpackLens, cycle \in 1..2 :
           LET r == xlog_pack_data(h_len, cycle, ubuf)
           IN  /\ uhead' = r.head
               /\ upacked' = r.dp
               /\ ubuf' = r.dp
    /\ pc' = "packed"
    /\ UNCHANGED udata

UnpackRecord ==
    /\ pc = "packed"
    /\ ubuf' = xlog_unpack_data(uhead, ubuf)
    /\ pc' = "unpacked"
    /\ UNCHANGED <<udata, uhead, upacked>>

NextUnpack ==
    /\ \/ PackRecord
       \/ UnpackRecord
    /\ UNCHANGED <<written, disk, head_blk, tail_blk, pass, blk_no, rhash,
                   delivered, nops, nrecs, error, bufs>>
    /\ UNCHANGED <<scanVars, dirVars>>

SpecUnpack == InitUnpack /\ [][NextUnpack]_vars

----------------------------------------------------------------------------
(* The directory checker, repair/dir2.c.                                   *)
(*                                                                         *)
(* The inode fork is held as it parses: a header and the entries that      *)
(* follow it, with zero bytes after the last one.  Sizes in the fork are   *)
(* bytes.  A directory block is held as a sequence of units of             *)
(* XFS_DIR2_DATA_ALIGN bytes; lengths, tags and bestfree offsets in        *)
(* blocks count units.                                                     *)

NULLFSINO == -1

\* the superblock fields process_dir2 compares inode numbers with
m_sb == [sb_rootino |-> 1, sb_rbmino |-> 2, sb_rsumino |-> 3,
         sb_uquotino |-> 4, sb_gquotino |-> 5, sb_pquotino |-> 6]

\* the incore inode tree: inode numbers with a record, and those marked free
InodeRecs == [known |-> {1, 7, 8, 11}, free |-> {8}, last |-> 12]

\* verify_inum returns 1 for an inode number that cannot exist
verify_inum(lino) == lino <= 0 \/ lino > InodeRecs.last

find_inode_rec(lino) == lino \in InodeRecs.known

is_inode_free(lino) == lino \in InodeRecs.free

\* inode numbers above this need 8 bytes in a shortform entry
XFS_DIR2_MAX_SHORT_INUM == 10

\* m_dir_geo and the literal area of the inode
m_dir_geo == [blksize |-> 128, leafblk |-> 3, fsbcount |-> 1, node_ents |-> 3,
              datablk |-> 0]

XFS_DFORK_DSIZE == 40

\* a ladder that refuses a free inode whatever ino_discovery says
inum_reason_free_always(lino, ino_discovery) ==
    IF verify_inum(lino) THEN "invalid"
    ELSE IF lino \in {m_sb.sb_rbmino, m_sb.sb_rsumino, m_sb.sb_uquotino,
                      m_sb.sb_gquotino, m_sb.sb_pquotino} THEN "special"
    ELSE IF find_inode_rec(lino)
         THEN IF is_inode_free(lino) THEN "free" ELSE ""
    ELSE IF ino_discovery THEN "" ELSE "non-existent"

\* why an entry's inode number is refused, "" when it is not (lines 810-866
\* and 1264-1320 use the same ladder after their first test)
InumReason(lino, ino_discovery) ==
    IF verify_inum(lino) THEN "invalid"
    ELSE IF lino = m_sb.sb_rbmino THEN "realtime bitmap"
    ELSE IF lino = m_sb.sb_rsumino THEN "realtime summary"
    ELSE IF lino = m_sb.sb_uquotino THEN "user quota"
    ELSE IF lino = m_sb.sb_gquotino THEN "group quota"
    ELSE IF lino = m_sb.sb_pquotino THEN "project quota"
    ELSE IF find_inode_rec(lino)
         THEN IF is_inode_free(lino) /\ ~ino_discovery THEN "free" ELSE ""
    ELSE IF ino_discovery THEN "" ELSE "non-existent"

\* the inode number is a legal one that no inode record holds: with
\* ino_discovery on it goes to add_inode_uncertain (lines 857 and 1293)
InoUnknown(lino) == InumReason(lino, FALSE) = "non-existent"

\* the bytes of a name: the first two are held, the ones after are letters
NameByte(name, i) == IF i <= Len(name) THEN name[i] ELSE "a"

\* a check for '/' alone
namecheck_slash_only(name, length) ==
    \E i \in 1..length : NameByte(name, i) = "/"

namecheck(name, length) ==
    \E i \in 1..length : NameByte(name, i) \in {"/", "NUL"}

\* the size of an entry of a data block: inumber, namelen, name, tag
data_entsize(n) == ((8 + 1 + n + 2 + 7) \div 8) * 8

\* '.' and '..' come first in a block: the header and two entries
data_first_offset == 16 + data_entsize(1) + data_entsize(2)

xfs_dir2_sf_hdr_size(i8count) == 2 + (IF i8count # 0 THEN 8 ELSE 4)

sf_entsize(sfp, len) == 3 + len + (IF sfp.i8count # 0 THEN 8 ELSE 4)

ZeroSfEntry == [namelen |-> 0, offset |-> 0, name |-> <<"NUL", "NUL">>, ino |-> 0]

\* the entry that starts where entry k of the fork starts
SfEntry(sfp, k) == IF k <= Len(sfp.ents) THEN sfp.ents[k] ELSE ZeroSfEntry

RemoveAt(s, k) == [j \in 1..(Len(s) - 1) |-> IF j < k THEN s[j] ELSE s[j + 1]]

\* the fork after the entries before entry k were rewritten with 4-byte
\* inode numbers, and where the rewritten entries end; what lay from entry k
\* on is not moved and no longer parses
process_sf_dir2_fixi8(sfp, k) ==
    LET kept == SubSeq(sfp.ents, 1, k - 1)
        newsfp == [sfp EXCEPT !.i8count = 0, !.ents = kept]
        RECURSIVE End(_)
        End(j) == IF j = 0 THEN xfs_dir2_sf_hdr_size(0)
                  ELSE End(j - 1) + sf_entsize(newsfp, kept[j].namelen)
    IN  [sf |-> newsfp, next_sfep |-> End(Len(kept))]

process_sf_dir2_fixoff(sfp) ==
    LET RECURSIVE Off(_)
        Off(j) == IF j = 1 THEN data_first_offset
                  ELSE Off(j - 1) + data_entsize(SfEntry(sfp, j - 1).namelen)
    IN  [sfp EXCEPT !.ents = [j \in 1..Len(sfp.ents) |->
                                IF j <= sfp.count
                                THEN [sfp.ents[j] EXCEPT !.offset = Off(j)]
                                ELSE sfp.ents[j]]]

\* a splice that takes the entry out and leaves di_size as it was
splice_keeps_di_size(st, tmp_elen) ==
    [st EXCEPT !.ino_dir_size = @ - tmp_elen,
               !.dip.sf.ents = RemoveAt(@, st.k),
               !.dip.sf.count = (@ - 1) % 256,
               !.num_entries = @ - 1,
               !.fixed = TRUE]

\* lines 941-976: the rest of the fork is moved over the entry at next_sfep,
\* which is tmp_elen bytes long; sizes and counts follow, i stays
SfSplice(st, tmp_elen) ==
    [st EXCEPT !.dip.di_size = @ - tmp_elen,
               !.ino_dir_size = @ - tmp_elen,
               !.dip.sf.ents = RemoveAt(@, st.k),
               !.dip.sf.count = (@ - 1) % 256,
               !.num_entries = @ - 1,
               !.fixed = TRUE]

\* line 857: the list of uncertain inodes after the ladder looked at lino
SfUncertain(uncertain, lino, c) ==
    IF lino # c.ino /\ c.ino_discovery /\ InoUnknown(lino)
    THEN uncertain \cup {lino} ELSE uncertain

\* the entry loop of process_sf_dir2, lines 791-999.  st.k is the entry at
\* next_sfep, st.next the bytes from sfp to next_sfep.
RECURSIVE SfEntries(_, _)
SfEntries(st, c) ==
    IF ~(st.i < st.num_entries /\ st.ino_dir_size > st.next) THEN st
    ELSE
    LET sfp     == st.dip.sf
        sfep    == SfEntry(sfp, st.k)
        lino    == sfep.ino
        namelen == sfep.namelen
        bad_sfnamelen ==
            \/ namelen = 0
            \/ st.next + sf_entsize(sfp, namelen) > st.ino_dir_size
        junkit  == \/ lino = c.ino
                   \/ InumReason(lino, c.ino_discovery) # ""
                   \/ namecheck(sfep.name, namelen)
        seen    == [st EXCEPT
                      !.bad_offset = @ \/ sfep.offset < st.offset,
                      !.offset = sfep.offset + data_entsize(namelen),
                      !.uncertain = SfUncertain(@, lino, c)]
        tmp_elen == sf_entsize(sfp, namelen)
    IN  IF bad_sfnamelen
        THEN [st EXCEPT !.uncertain = SfUncertain(@, lino, c)]
        ELSE IF junkit /\ ~c.no_modify
        THEN SfEntries(SfSplice(seen, tmp_elen), c)
        ELSE SfEntries([seen EXCEPT
                          !.i = @ + 1,
                          !.k = @ + 1,
                          !.next = @ + tmp_elen,
                          !.i8 = IF ~junkit /\ lino > XFS_DIR2_MAX_SHORT_INUM
                                 THEN @ + 1 ELSE @], c)

\* the locals of process_sf_dir2 before its entry loop, lines 766-790
SfStart(dip) ==
    [dip |-> dip,
     i |-> 0,
     num_entries |->
         IF \/ dip.sf.count * sf_entsize(dip.sf, 1)
                   + xfs_dir2_sf_hdr_size(0) > XFS_DFORK_DSIZE
            \/ dip.sf.count = 0
         THEN 255 ELSE dip.sf.count,
     ino_dir_size |-> dip.di_size,
     k |-> 1,
     next |-> xfs_dir2_sf_hdr_size(dip.sf.i8count),
     offset |-> data_first_offset,
     bad_offset |-> FALSE,
     i8 |-> IF dip.sf.parent > XFS_DIR2_MAX_SHORT_INUM THEN 1 ELSE 0,
     uncertain |-> {},
     fixed |-> FALSE]

\* a sync that leaves the stored count alone
sync_count_keeps_count(st, c) == st

\* sync up sizes and entry counts: the entry count, lines 1003-1016
SfSyncCount(st, c) ==
    IF st.dip.sf.count # st.i /\ ~c.no_modify
    THEN [st EXCEPT !.dip.sf.count = st.i, !.fixed = TRUE]
    ELSE st

\* i8count, lines 1018-1034
SfSyncI8(st, c) ==
    IF st.dip.sf.i8count # st.i8 /\ ~c.no_modify
    THEN IF st.i8 = 0
         THEN [st EXCEPT
                 !.dip.sf = process_sf_dir2_fixi8(st.dip.sf, st.k).sf,
                 !.next = process_sf_dir2_fixi8(st.dip.sf, st.k).next_sfep,
                 !.fixed = TRUE]
         ELSE [st EXCEPT !.dip.sf.i8count = st.i8, !.fixed = TRUE]
    ELSE st

\* di_size, lines 1036-1052
SfSyncSize(st, c) ==
    IF st.next # st.ino_dir_size /\ ~c.no_modify
    THEN [st EXCEPT !.dip.di_size = st.next, !.fixed = TRUE]
    ELSE st

\* the offsets, lines 1054-1070
SfFixOffsets(st, c) ==
    IF /\ \/ st.bad_offset
          \/ st.offset + (st.dip.sf.count + 2) * 8 + 8 > m_dir_geo.blksize
       /\ ~c.no_modify
    THEN [st EXCEPT !.dip.sf = process_sf_dir2_fixoff(@), !.fixed = TRUE]
    ELSE st

\* check parent (..) entry, lines 1077-1132, and what process_sf_dir2
\* returns: the inode as it leaves it, the parent, and whether it set
\* *dino_dirty and *repair (it sets the two together)
SfParent(st, c) ==
    LET parent == st.dip.sf.parent
        bogus  == verify_inum(st.dip.sf.parent)
        root   == /\ ~verify_inum(st.dip.sf.parent)
                  /\ c.ino = m_sb.sb_rootino
                  /\ c.ino # st.dip.sf.parent
        self   == /\ ~verify_inum(st.dip.sf.parent)
                  /\ c.ino # m_sb.sb_rootino
                  /\ c.ino = st.dip.sf.parent
    IN  [dip |-> IF (bogus \/ self) /\ ~c.no_modify
                 THEN [st.dip EXCEPT !.sf.parent = 0]
                 ELSE IF root /\ ~c.no_modify
                 THEN [st.dip EXCEPT !.sf.parent = c.ino]
                 ELSE st.dip,
         parent |-> IF bogus \/ self THEN NULLFSINO
                    ELSE IF root /\ ~c.no_modify THEN c.ino ELSE parent,
         dino_dirty |-> st.fixed \/ ((bogus \/ self \/ root) /\ ~c.no_modify),
         repair |-> st.fixed \/ ((bogus \/ self \/ root) /\ ~c.no_modify),
         uncertain |-> st.uncertain,
         res |-> 0]

process_sf_dir2(dip, c) ==
    SfParent(
        SfFixOffsets(
            SfSyncSize(
                SfSyncI8(
                    SfSyncCount(SfEntries(SfStart(dip), c), c), c), c), c), c)

XFS_DIR2_DATA_ALIGN == 8

\* units an entry with this namelen takes
EntUnits(n) == data_entsize(n) \div XFS_DIR2_DATA_ALIGN

\* units of the header of a data block: the magic number and bestfree[3]
DataHdrUnits == 2

BlkUnits == m_dir_geo.blksize \div XFS_DIR2_DATA_ALIGN

\* The unit at an offset of a block.  A unit is read as the start of an
\* unused region (freetag, length), as the start of an entry (inumber), as
\* the unit after it (namelen, name) or as the end of either (tag).
UnitAt(blk, off) == blk.u[off - DataHdrUnits + 1]

\* xfs_dir2_data_freefind: the bestfree slot recorded for the unused region
\* at off, 0 when there is none
xfs_dir2_data_freefind(bf, off, length) ==
    IF length < bf[3].length THEN 0
    ELSE LET stop == {i \in 1..3 : bf[i].offset = 0 \/ bf[i].offset = off}
         IN  IF stop = {} THEN 0
             ELSE LET i == MinOf(stop)
                  IN  IF bf[i].offset = 0 THEN 0 ELSE i

\* the first walk of process_dir2_data, lines 1192-1228: where it stops and
\* what it learnt about the bestfree table
RECURSIVE DataWalk(_, _, _, _)
DataWalk(blk, endptr, ptr, st) ==
    IF ptr >= endptr THEN [st EXCEPT !.ptr = ptr]
    ELSE
    LET dup  == UnitAt(blk, ptr)
        stop == [st EXCEPT !.ptr = ptr]
    IN  IF dup.freetag
        THEN IF ptr + dup.length > endptr \/ dup.length = 0 THEN stop
             ELSE IF UnitAt(blk, ptr + dup.length - 1).tag # ptr THEN stop
             ELSE LET dfp == xfs_dir2_data_freefind(blk.bf, ptr, dup.length)
                  IN  DataWalk(blk, endptr, ptr + dup.length,
                        [st EXCEPT
                           !.badbest = \/ @
                                       \/ st.lastfree
                                       \/ IF dfp # 0 THEN dfp \in st.freeseen
                                          ELSE dup.length > blk.bf[3].length,
                           !.freeseen = IF dfp # 0 THEN @ \cup {dfp} ELSE @,
                           !.lastfree = TRUE,
                           !.frees = Append(@, [offset |-> ptr,
                                                length |-> dup.length])])
        \* an entry is two units or more: with one unit left the test of
        \* line 1221 fails whatever namelen reads
        ELSE IF ptr + 2 > endptr THEN stop
        ELSE LET len == EntUnits(UnitAt(blk, ptr + 1).namelen)
             IN  IF ptr + len > endptr THEN stop
                 ELSE IF UnitAt(blk, ptr + len - 1).tag # ptr THEN stop
                 ELSE DataWalk(blk, endptr, ptr + len,
                               [st EXCEPT !.lastfree = FALSE])

xfs_dir2_data_freeinsert(bf, new) ==
    IF new.length > bf[1].length THEN <<new, bf[1], bf[2]>>
    ELSE IF new.length > bf[2].length THEN <<bf[1], new, bf[2]>>
    ELSE IF new.length > bf[3].length THEN <<bf[1], bf[2], new>>
    ELSE bf

NoFree == [offset |-> 0, length |-> 0]

\* libxfs_dir2_data_freescan: the table rebuilt from the unused regions
RECURSIVE xfs_dir2_data_freescan(_)
xfs_dir2_data_freescan(frees) ==
    IF frees = <<>> THEN <<NoFree, NoFree, NoFree>>
    ELSE xfs_dir2_data_freeinsert(
             xfs_dir2_data_freescan(SubSeq(frees, 1, Len(frees) - 1)),
             Last(frees))

\* the second walk of process_dir2_data, lines 1246-1497
RECURSIVE DataEntries(_, _, _, _)
DataEntries(st, endptr, ptr, c) ==
    IF ptr >= endptr THEN st
    ELSE IF UnitAt(st.blk, ptr).freetag
    THEN DataEntries(st, endptr, ptr + UnitAt(st.blk, ptr).length, c)
    ELSE
    LET ent_ino == UnitAt(st.blk, ptr).inumber
        dep     == UnitAt(st.blk, ptr + 1)
        isdots  == \/ dep.namelen = 1 /\ dep.name[1] = "."
                   \/ dep.namelen = 2 /\ dep.name[1] = "." /\ dep.name[2] = "."
        clearino ==
            \/ dep.namelen = 0
            \/ /\ ~isdots
               /\ ~(~c.ino_discovery /\ dep.name[1] = "/")
               /\ InumReason(ent_ino, c.ino_discovery) # ""
        \* lines 1346-1370
        namelen == IF dep.namelen = 0 /\ ~c.no_modify THEN 1 ELSE dep.namelen
        name1   == IF clearino /\ ~c.no_modify
                   THEN [dep.name EXCEPT ![1] = "/"] ELSE dep.name
        dirty1  == st.dirty \/ (clearino /\ ~c.no_modify)
        \* lines 1376-1392
        slash   == name1[1] = "/"
        junkit1 == IF ~c.no_modify /\ slash THEN FALSE
                   ELSE slash \/ (c.ino_discovery /\ namecheck(name1, namelen))
        dirty2  == dirty1 \/ (~c.no_modify /\ slash)
        \* lines 1397-1480
        dotdot  == namelen = 2 /\ name1[1] = "." /\ name1[2] = "."
        dot     == ~dotdot /\ namelen = 1 /\ name1[1] = "."
        first   == (dotdot /\ st.dotdot = 0) \/ (dot /\ st.dot = 0)
        root    == c.ino = m_sb.sb_rootino
        fixino  == /\ first
                   /\ ent_ino # c.ino
                   /\ (dotdot => root)
        junkit  == \/ junkit1
                   \/ (dotdot \/ dot) /\ ~first
                   \/ dotdot /\ first /\ c.ino = ent_ino /\ ~root
                   \/ ~dotdot /\ ~dot /\ ent_ino = c.ino
        inumber == IF fixino /\ ~c.no_modify THEN c.ino ELSE ent_ino
        name2   == IF junkit /\ ~c.no_modify
                   THEN [name1 EXCEPT ![1] = "/"] ELSE name1
        u1      == [st.blk.u EXCEPT
                      ![ptr - DataHdrUnits + 1].inumber = inumber,
                      ![ptr - DataHdrUnits + 2].namelen = namelen,
                      ![ptr - DataHdrUnits + 2].name = name2]
    IN  DataEntries(
            [blk    |-> [st.blk EXCEPT !.u = u1],
             dot    |-> IF dot /\ first THEN 1 ELSE st.dot,
             dotdot |-> IF dotdot /\ first THEN 1 ELSE st.dotdot,
             parent |-> IF ~(dotdot /\ first) THEN st.parent
                        ELSE IF c.ino = ent_ino /\ ~root THEN NULLFSINO
                        ELSE IF c.ino # ent_ino /\ root THEN c.ino
                        ELSE ent_ino,
             dirty  |-> dirty2 \/ ((fixino \/ junkit) /\ ~c.no_modify),
             uncertain |-> IF c.ino_discovery /\ InoUnknown(ent_ino)
                           THEN st.uncertain \cup {ent_ino}
                           ELSE st.uncertain],
            endptr, ptr + EntUnits(namelen), c)

\* what the first walk starts from, lines 1174-1191: the state of the
\* bestfree table
DataWalkStart(bf) ==
    [ptr |-> DataHdrUnits,
     badbest |->
        \/ \E i \in 1..3 : bf[i].length = 0 /\ bf[i].offset # 0
        \/ bf[1].length < bf[2].length
        \/ bf[2].length < bf[3].length,
     freeseen |-> {i \in 1..3 : bf[i].length = 0},
     lastfree |-> FALSE,
     frees |-> <<>>]

\* a closing check that looks at badbest alone
data_finish_badbest_only(blk, st, endptr, c, w, e) ==
    LET rescan == w.badbest /\ ~c.no_modify
    IN  IF w.ptr # endptr
        THEN [blk |-> blk, dot |-> st.dot, dotdot |-> st.dotdot,
              parent |-> st.parent, dirty |-> st.dirty,
              uncertain |-> st.uncertain, rval |-> 1]
        ELSE [blk    |-> IF rescan
                         THEN [e.blk EXCEPT !.bf = xfs_dir2_data_freescan(w.frees)]
                         ELSE e.blk,
              dot    |-> e.dot,
              dotdot |-> e.dotdot,
              parent |-> e.parent,
              dirty  |-> e.dirty \/ rescan,
              uncertain |-> e.uncertain,
              rval   |-> 0]

\* lines 1229-1240 and 1498-1514: w is what the first walk found, e what
\* the second walk left
DataFinish(blk, st, endptr, c, w, e) ==
    LET rescan == (w.freeseen # 1..3 \/ w.badbest) /\ ~c.no_modify
    IN  IF w.ptr # endptr
        THEN [blk |-> blk, dot |-> st.dot, dotdot |-> st.dotdot,
              parent |-> st.parent, dirty |-> st.dirty,
              uncertain |-> st.uncertain, rval |-> 1]
        ELSE [blk    |-> IF rescan
                         THEN [e.blk EXCEPT !.bf = xfs_dir2_data_freescan(w.frees)]
                         ELSE e.blk,
              dot    |-> e.dot,
              dotdot |-> e.dotdot,
              parent |-> e.parent,
              dirty  |-> e.dirty \/ rescan,
              uncertain |-> e.uncertain,
              rval   |-> 0]

\* a walk that turns every entry it marked into an unused region
process_dir2_data_splices(blk, st, endptr, c) ==
    LET r == DataFinish(blk, st, endptr, c,
                 DataWalk(blk, endptr, DataHdrUnits, DataWalkStart(blk.bf)),
                 DataEntries([blk |-> blk, dot |-> st.dot,
                              dotdot |-> st.dotdot, parent |-> st.parent,
                              dirty |-> st.dirty, uncertain |-> st.uncertain],
                             endptr, DataHdrUnits, c))
    IN  [r EXCEPT !.blk.u =
            [j \in DOMAIN @ |->
                IF j < Len(@) /\ @[j + 1].name[1] = "/" /\ ~c.no_modify
                THEN [@[j] EXCEPT !.freetag = TRUE,
                                  !.length = EntUnits(r.blk.u[j + 1].namelen)]
                ELSE @[j]]]

\* process_dir2_data over the buffer blk.  st carries *dot, *dotdot, *parent
\* and *dirty in; the result carries them out with the buffer and rval.
process_dir2_data(blk, st, endptr, c) ==
    DataFinish(blk, st, endptr, c,
               DataWalk(blk, endptr, DataHdrUnits, DataWalkStart(blk.bf)),
               DataEntries([blk |-> blk, dot |-> st.dot, dotdot |-> st.dotdot,
                            parent |-> st.parent, dirty |-> st.dirty,
                            uncertain |-> st.uncertain],
                           endptr, DataHdrUnits, c))

(* The block, leaf and node paths work on a machine state M:               *)
(*   blocks  : file block number -> the buffer of that directory block     *)
(*   cur     : the dir2_bt_cursor_t of the node walk                       *)
(*   writes  : the blocks handed to libxfs_writebuf, in call order         *)
(*   puts    : the number of libxfs_putbuf calls                           *)
(*   asserts : the ASSERTs that did not hold, by line                      *)
(*   crashed : a NULL buffer pointer was dereferenced                      *)
(*   reads   : the leaf blocks process_leaf_level_dir2 got a buffer for,    *)
(*             in the order of the reads                                   *)
(*   walked  : those of them that went on past the back pointer test       *)
(*   rval    : the return value of the routine that produced M             *)
(* A failed ASSERT is recorded and the routine goes on as a build without  *)
(* DEBUG does; a build with DEBUG stops there, having made the same calls  *)
(* up to that point.                                                       *)

EFSBADCRC == 74

XFS_DA_NODE_MAXDEPTH == 5

XFS_DIR2_NULL_DATAPTR == -1

\* blkmap_getn and da_read_buf: "nomap" when the block is not mapped, "null"
\* when the read gives no buffer, "ok" otherwise
da_read_buf(blocks, bno) ==
    IF bno \notin DOMAIN blocks THEN "nomap"
    ELSE IF blocks[bno].b_error = EIO THEN "null"
    ELSE "ok"

libxfs_putbuf(M) == [M EXCEPT !.puts = @ + 1]

libxfs_writebuf(M, bno) == [M EXCEPT !.writes = Append(@, bno)]

Fail(M) == [M EXCEPT !.rval = 1]

NoLevel == [hashval |-> 0, bno |-> 0, index |-> 0, dirty |-> 0, bp |-> FALSE]

\* memset(&da_cursor, 0, sizeof(da_cursor)), line 1809
ZeroCursor == [active |-> 0,
               level |-> [l \in 0..(XFS_DA_NODE_MAXDEPTH - 1) |-> NoLevel]]

\* entry number entry of the btree array of an interior block
BtreeAt(node, entry) == node.btree[entry + 1]

\* error_out of traverse_int_dir2block, lines 261-267
TraverseErrorOut(M, i) ==
    LET n == IF i > 1 /\ i <= M.cur.active THEN M.cur.active - i + 1 ELSE 0
    IN  [M EXCEPT !.puts = @ + n, !.rval = 0]

\* the loop of traverse_int_dir2block from the read of block bno on; rval 1
\* is success and rbno the block passed back
RECURSIVE TraverseDown(_, _, _)
TraverseDown(M, bno, i) ==
    IF da_read_buf(M.blocks, bno) # "ok" THEN TraverseErrorOut(M, i)
    ELSE
    LET node == M.blocks[bno]
        ni   == IF i = -1 THEN node.level ELSE i - 1
        M1   == [M EXCEPT
                   !.cur.active = IF i = -1 THEN node.level ELSE @,
                   !.cur.level[ni] =
                       [@ EXCEPT !.hashval = BtreeAt(node, 0).hashval,
                                 !.bp = TRUE, !.bno = bno, !.index = 0]]
        down == BtreeAt(node, 0).before
    IN  IF node.magic = "LEAFN"
        THEN [libxfs_putbuf(M) EXCEPT !.rval = 1, !.rbno = 0]
        ELSE IF \/ node.magic # "NODE"
                \/ node.b_error \in {EFSBADCRC, EFSCORRUPTED}
                \/ node.count > m_dir_geo.node_ents
        THEN TraverseErrorOut(libxfs_putbuf(M), i)
        ELSE IF i = -1 /\ (node.level < 1 \/ node.level >= XFS_DA_NODE_MAXDEPTH)
        THEN TraverseErrorOut(
                 [libxfs_putbuf(M) EXCEPT !.cur.active = node.level], -1)
        ELSE IF i # -1 /\ node.level # i - 1
        THEN TraverseErrorOut(libxfs_putbuf(M), i)
        ELSE IF ni > 1 THEN TraverseDown(M1, down, ni)
        ELSE [M1 EXCEPT !.cur.level[0].bno = down, !.rval = 1, !.rbno = down]

traverse_int_dir2block(M) ==
    TraverseDown([M EXCEPT !.cur.active = 0], m_dir_geo.leafblk, -1)

\* release_dir2_cursor_int from level prev_level + 1 up
release_dir2_cursor_int(M, prev_level, err) ==
    LET top  == IF M.cur.active > prev_level + 1
                THEN M.cur.active ELSE prev_level + 1
        lvls == {l \in (prev_level + 1)..top :
                    l < XFS_DA_NODE_MAXDEPTH /\ M.cur.level[l].bp}
    IN  [M EXCEPT
           !.puts = @ + Cardinality(lvls),
           !.asserts = IF lvls # {} /\ err = 0 THEN @ \cup {290} ELSE @,
           !.cur.level = [l \in DOMAIN @ |->
                            IF l \in lvls THEN [@[l] EXCEPT !.bp = FALSE]
                            ELSE @[l]]]

RECURSIVE verify_final_dir2_path(_, _, _)
verify_final_dir2_path(M, p_level, c) ==
    LET this_level == p_level + 1
        lv    == M.cur.level[this_level]
        node  == M.blocks[lv.bno]
        entry == lv.index
        \* the three tests of lines 352-374; when the first fails the
        \* routine returns 1 whatever btree[entry] reads
        bad   == \/ entry # node.count - 1
                 \/ lv.hashval >= BtreeAt(node, entry).hashval
                 \/ node.forw # 0
        below == M.cur.level[p_level]
        fix   == below.hashval # BtreeAt(node, entry).hashval /\ ~c.no_modify
        M1    == IF fix
                 THEN [M EXCEPT
                         !.blocks[lv.bno].btree[entry + 1].hashval =
                             below.hashval,
                         !.cur.level[this_level].dirty = @ + 1]
                 ELSE M
        dirty == M1.cur.level[this_level].dirty
        M2    == [M1 EXCEPT
                    !.asserts = IF dirty # 0 /\ c.no_modify
                                THEN @ \cup {413} ELSE @]
        M3    == IF dirty # 0 /\ ~c.no_modify
                 THEN libxfs_writebuf(M2, lv.bno) ELSE libxfs_putbuf(M2)
        M4    == [M3 EXCEPT !.cur.level[this_level].bp = FALSE]
    IN  IF ~lv.bp THEN [Fail(M) EXCEPT !.crashed = TRUE]
        ELSE IF bad THEN Fail(M)
        ELSE IF below.bno # BtreeAt(node, entry).before THEN Fail(M)
        ELSE IF this_level >= M.cur.active THEN [M4 EXCEPT !.rval = 0]
        ELSE verify_final_dir2_path(
                 [M4 EXCEPT !.cur.level[this_level].hashval =
                                BtreeAt(M4.blocks[lv.bno], entry).hashval],
                 this_level, c)

\* a check of the entry that leaves its hashval as it is
verify_entry_keeps_hashval(M, p_level, c) ==
    LET this_level == p_level + 1
        lv    == M.cur.level[this_level]
        btree == BtreeAt(M.blocks[lv.bno], lv.index)
    IN  IF M.cur.level[p_level].bno # btree.before THEN Fail(M)
        ELSE [M EXCEPT !.cur.level[this_level].index = @ + 1, !.rval = 0]

\* lines 620-651 of verify_dir2_path: the entry of the block now at this_level
VerifyEntry(M, p_level, c) ==
    LET this_level == p_level + 1
        lv    == M.cur.level[this_level]
        entry == lv.index
        btree == BtreeAt(M.blocks[lv.bno], entry)
        below == M.cur.level[p_level]
        fix   == below.hashval # btree.hashval /\ ~c.no_modify
        M1    == IF fix
                 THEN [M EXCEPT
                         !.blocks[lv.bno].btree[entry + 1].hashval =
                             below.hashval,
                         !.cur.level[this_level].dirty = @ + 1]
                 ELSE M
    IN  IF below.bno # btree.before THEN Fail(M)
        ELSE [M1 EXCEPT !.cur.level[this_level].index = @ + 1, !.rval = 0]

RECURSIVE verify_dir2_path(_, _, _)
verify_dir2_path(M, p_level, c) ==
    LET this_level == p_level + 1
        lv    == M.cur.level[this_level]
        node  == M.blocks[lv.bno]
        entry == lv.index
        \* lines 514-529: this block is out of entries
        M1    == verify_dir2_path(
                     [M EXCEPT !.cur.level[this_level].hashval =
                                   BtreeAt(node, entry - 1).hashval],
                     this_level, c)
        \* lines 533-594: the sibling
        dabno == node.forw
        M2    == [M1 EXCEPT !.asserts = IF dabno = 0 THEN @ \cup {534} ELSE @]
        newnode == M2.blocks[dabno]
        bad   == \/ newnode.magic # "NODE"
                 \/ newnode.back # lv.bno
                 \/ newnode.count > m_dir_geo.node_ents
                 \/ newnode.level # this_level
        \* lines 599-618: let go of the used-up block
        old   == M2.cur.level[this_level]
        dirty == \/ old.dirty # 0
                 \/ ~c.no_modify /\ M2.blocks[old.bno].b_error = EFSBADCRC
        M3    == [M2 EXCEPT
                    !.asserts = IF old.dirty # 0 /\ c.no_modify
                                THEN @ \cup {599} ELSE @]
        M4    == IF dirty /\ ~c.no_modify
                 THEN libxfs_writebuf(M3, old.bno) ELSE libxfs_putbuf(M3)
        M5    == [M4 EXCEPT
                    !.cur.level[this_level] =
                        [bp |-> TRUE, dirty |-> 0, bno |-> dabno,
                         hashval |-> BtreeAt(newnode, 0).hashval,
                         index |-> 0]]
    IN  IF this_level >= XFS_DA_NODE_MAXDEPTH \/ ~lv.bp
        THEN [Fail(M) EXCEPT !.crashed = TRUE]
        ELSE IF entry < node.count THEN VerifyEntry(M, p_level, c)
        ELSE IF M1.rval # 0 THEN Fail(M1)
        ELSE IF da_read_buf(M2.blocks, dabno) # "ok" THEN Fail(M2)
        ELSE IF bad THEN Fail(libxfs_putbuf(M2))
        ELSE VerifyEntry(M5, p_level, c)

\* process_leaf_block_dir2: rval and *next_hashval, which comes in as nh
RECURSIVE LeafEntries(_, _, _, _, _)
LeafEntries(leaf, i, stale, last_hashval, nh) ==
    IF i >= leaf.count
    THEN [rval |-> IF stale # leaf.stale THEN 1 ELSE 0, next_hashval |-> nh]
    ELSE IF i >= Len(leaf.ents) THEN [rval |-> 1, next_hashval |-> nh]
    ELSE LET ent == leaf.ents[i + 1]
         IN  IF ent.address = XFS_DIR2_NULL_DATAPTR
             THEN LeafEntries(leaf, i + 1, stale + 1, ent.hashval, ent.hashval)
             ELSE IF ent.hashval < last_hashval
             THEN [rval |-> 1, next_hashval |-> nh]
             ELSE LeafEntries(leaf, i + 1, stale, ent.hashval, ent.hashval)

process_leaf_block_dir2(leaf, last_hashval, nh) ==
    LeafEntries(leaf, 0, 0, last_hashval, nh)

\* error_out of process_leaf_level_dir2, lines 1778-1785
LeafLevelErrorOut(M) == Fail(release_dir2_cursor_int(M, 0, 1))

\* a walk that leaves out the test of the back pointer
RECURSIVE leaf_level_no_back_test(_, _, _, _, _, _)
leaf_level_no_back_test(M, da_bno, prev_bno, current_hashval, greatest_hashval, c) ==
    LET Ma   == [M EXCEPT !.asserts = IF da_bno = 0 THEN @ \cup {1684} ELSE @]
        Mr   == [Ma EXCEPT !.reads = Append(@, da_bno)]
        leaf == Ma.blocks[da_bno]
        r    == process_leaf_block_dir2(leaf, current_hashval, greatest_hashval)
        M1   == [Mr EXCEPT
                   !.cur.level[0] =
                       [@ EXCEPT !.hashval = r.next_hashval, !.bno = da_bno,
                                 !.index = leaf.count, !.dirty = 0]]
        Mw   == [M1 EXCEPT !.walked = Append(@, da_bno)]
        next == leaf.forw
        M2   == IF next # 0 THEN verify_dir2_path(Mw, 0, c) ELSE Mw
        buf_dirty == ~c.no_modify /\ leaf.b_error = EFSBADCRC
        M3   == IF buf_dirty /\ ~c.no_modify
                THEN [libxfs_writebuf(M2, da_bno) EXCEPT !.repair = TRUE]
                ELSE libxfs_putbuf(M2)
        M4   == verify_final_dir2_path(M3, 0, c)
    IN  IF da_read_buf(Ma.blocks, da_bno) # "ok" THEN LeafLevelErrorOut(Ma)
        ELSE IF leaf.magic # "LEAFN" THEN LeafLevelErrorOut(libxfs_putbuf(Mr))
        ELSE IF r.rval # 0 THEN LeafLevelErrorOut(libxfs_putbuf(Mr))
        ELSE IF next # 0 /\ M2.crashed THEN M2
        ELSE IF next # 0 /\ M2.rval # 0
        THEN LeafLevelErrorOut(libxfs_putbuf(M2))
        ELSE IF next # 0
        THEN leaf_level_no_back_test(M3, next, da_bno, r.next_hashval, r.next_hashval, c)
        ELSE IF M4.crashed THEN M4
        ELSE IF M4.rval # 0 THEN LeafLevelErrorOut(M4)
        ELSE [release_dir2_cursor_int(M4, 0, 0) EXCEPT !.rval = 0]

\* the loop of process_leaf_level_dir2 from the read of leaf da_bno on, and
\* what follows the loop
RECURSIVE LeafLevel(_, _, _, _, _, _)
LeafLevel(M, da_bno, prev_bno, current_hashval, greatest_hashval, c) ==
    LET Ma   == [M EXCEPT !.asserts = IF da_bno = 0 THEN @ \cup {1684} ELSE @]
        Mr   == [Ma EXCEPT !.reads = Append(@, da_bno)]
        leaf == Ma.blocks[da_bno]
        r    == process_leaf_block_dir2(leaf, current_hashval, greatest_hashval)
        M1   == [Mr EXCEPT
                   !.cur.level[0] =
                       [@ EXCEPT !.hashval = r.next_hashval, !.bno = da_bno,
                                 !.index = leaf.count, !.dirty = 0]]
        Mw   == [M1 EXCEPT !.walked = Append(@, da_bno)]
        next == leaf.forw
        M2   == IF next # 0 THEN verify_dir2_path(Mw, 0, c) ELSE Mw
        buf_dirty == ~c.no_modify /\ leaf.b_error = EFSBADCRC
        M3   == IF buf_dirty /\ ~c.no_modify
                THEN [libxfs_writebuf(M2, da_bno) EXCEPT !.repair = TRUE]
                ELSE libxfs_putbuf(M2)
        M4   == verify_final_dir2_path(M3, 0, c)
    IN  IF da_read_buf(Ma.blocks, da_bno) # "ok" THEN LeafLevelErrorOut(Ma)
        ELSE IF leaf.magic # "LEAFN" THEN LeafLevelErrorOut(libxfs_putbuf(Mr))
        ELSE IF r.rval # 0 THEN LeafLevelErrorOut(libxfs_putbuf(Mr))
        ELSE IF leaf.back # prev_bno THEN LeafLevelErrorOut(libxfs_putbuf(M1))
        ELSE IF next # 0 /\ M2.crashed THEN M2
        ELSE IF next # 0 /\ M2.rval # 0
        THEN LeafLevelErrorOut(libxfs_putbuf(M2))
        ELSE IF next # 0
        THEN LeafLevel(M3, next, da_bno, r.next_hashval, r.next_hashval, c)
        ELSE IF M4.crashed THEN M4
        ELSE IF M4.rval # 0 THEN LeafLevelErrorOut(M4)
        ELSE [release_dir2_cursor_int(M4, 0, 0) EXCEPT !.rval = 0]

process_leaf_level_dir2(M, c) ==
    LeafLevel(M, M.cur.level[0].bno, 0, 0, 0, c)

process_node_dir2(M, c) ==
    LET t == traverse_int_dir2block([M EXCEPT !.cur = ZeroCursor])
    IN  IF t.rval = 0 THEN Fail(t)
        ELSE IF t.rbno = 0
        THEN [release_dir2_cursor_int(t, 0, 0) EXCEPT !.rval = 0]
        ELSE process_leaf_level_dir2(t, c)

\* the machine state a layout path starts from
StartM(blocks) ==
    [blocks |-> blocks, cur |-> ZeroCursor, writes |-> <<>>, puts |-> 0,
     asserts |-> {}, crashed |-> FALSE, rval |-> 0, rbno |-> 0,
     repair |-> FALSE, dot |-> 0, dotdot |-> 0, parent |-> NULLFSINO,
     dirty |-> FALSE, good |-> 0, badlist |-> FALSE, uncertain |-> {},
     reads |-> <<>>, walked |-> <<>>]

\* a caller that forgets, from one block to the next, that '.' was seen
walked_dot_per_block(M, bno, r) ==
    [M EXCEPT !.blocks[bno] = r.blk, !.dot = 0,
              !.dotdot = r.dotdot, !.parent = r.parent,
              !.uncertain = r.uncertain,
              !.dirty = r.dirty \/ (r.rval = 0 /\ M.blocks[bno].b_error = EFSBADCRC),
              !.rval = r.rval,
              !.good = IF r.rval = 0 THEN @ + 1 ELSE @]

\* a caller that forgets, from one block to the next, that '..' was seen
walked_dotdot_per_block(M, bno, r) ==
    [M EXCEPT !.blocks[bno] = r.blk, !.dot = r.dot,
              !.dotdot = 0, !.parent = r.parent,
              !.uncertain = r.uncertain,
              !.dirty = r.dirty \/ (r.rval = 0 /\ M.blocks[bno].b_error = EFSBADCRC),
              !.rval = r.rval,
              !.good = IF r.rval = 0 THEN @ + 1 ELSE @]

\* M after process_dir2_data returned r for block bno: the outputs taken
\* over, and dirty set on a CRC error (lines 1587-1588, 1904-1905)
Walked(M, bno, r) ==
    [M EXCEPT !.blocks[bno] = r.blk, !.dot = r.dot,
              !.dotdot = r.dotdot, !.parent = r.parent,
              !.uncertain = r.uncertain,
              !.dirty = r.dirty \/ (r.rval = 0 /\ M.blocks[bno].b_error = EFSBADCRC),
              !.rval = r.rval,
              !.good = IF r.rval = 0 THEN @ + 1 ELSE @]

\* a write-back that looks at dirty alone
write_when_dirty(M, bno, c) ==
    IF M.dirty
    THEN [libxfs_writebuf(M, bno) EXCEPT !.repair = TRUE]
    ELSE libxfs_putbuf(M)

\* lines 1589-1593 and 1906-1911: write the buffer or release it
WriteOrRelease(M, bno, c) ==
    IF M.dirty /\ ~c.no_modify
    THEN [libxfs_writebuf(M, bno) EXCEPT !.repair = TRUE]
    ELSE libxfs_putbuf(M)

\* lines 1584-1593 and 1898-1911: walk the data of block bno, then write the
\* buffer or release it
WalkAndRelease(M, bno, endptr, c) ==
    WriteOrRelease(
        Walked(M, bno, process_dir2_data(M.blocks[bno], M, endptr, c)),
        bno, c)

process_block_dir2(M, c) ==
    LET bno   == m_dir_geo.datablk
        block == M.blocks[bno]
        \* blp = xfs_dir2_block_leaf_p(btp): the tail is one unit, and so
        \* is each of the btp->count leaf entries before it
        blp   == BlkUnits - 1 - block.count
    IN  IF da_read_buf(M.blocks, bno) # "ok" THEN Fail(M)
        ELSE WalkAndRelease(M, bno, blp, c)

\* the loop of process_leaf_node_dir2 over the mapped blocks below leafblk,
\* from the one after ndbno on
RECURSIVE DataBlocks(_, _, _)
DataBlocks(M, ndbno, c) ==
    LET later == {b \in DOMAIN M.blocks : b > ndbno /\ b < m_dir_geo.leafblk}
        dbno  == MinOf(later)
    IN  IF later = {} THEN M
        ELSE IF da_read_buf(M.blocks, dbno) # "ok" THEN DataBlocks(M, dbno, c)
        ELSE DataBlocks(WalkAndRelease(M, dbno, BlkUnits, c), dbno, c)

\* a tail that returns 0 and lists nothing
node_failure_unlisted(N) == [N EXCEPT !.rval = 0, !.badlist = FALSE]

\* lines 1913-1922: D is the state after the data blocks; the node walk's
\* verdict goes to the bad-directory list
LeafNodeResult(N) == [N EXCEPT !.rval = 0, !.badlist = N.rval # 0]

LeafNodeTail(D, c, isnode) ==
    IF D.good = 0 THEN Fail(D)
    ELSE IF ~isnode \/ c.badino THEN [D EXCEPT !.rval = 0]
    ELSE LeafNodeResult(process_node_dir2(D, c))

process_leaf_node_dir2(M, c, isnode) ==
    LeafNodeTail(DataBlocks(M, -1, c), c, isnode)

\* blkmap_last_off: one past the last mapped block, 0 without a map
blkmap_last_off(blocks) ==
    IF DOMAIN blocks = {} THEN 0 ELSE MaxOf(DOMAIN blocks) + 1

\* a dispatch that takes the leaf-or-node path only when the map goes on
\* beyond the leaf block
dir_layout_beyond_leaf_only(d) ==
    LET last == blkmap_last_off(d.blocks)
        extents == d.dip.di_format \in {"EXTENTS", "BTREE"}
    IN  IF d.dip.di_size <= XFS_DFORK_DSIZE /\ d.dip.di_format = "LOCAL"
        THEN "shortform"
        ELSE IF last = m_dir_geo.fsbcount /\ extents THEN "block"
        ELSE IF last > m_dir_geo.leafblk + m_dir_geo.fsbcount /\ extents
        THEN "node"
        ELSE "bad"

\* the branch process_dir2 takes, lines 1957-1982
DirLayout(d) ==
    LET last == blkmap_last_off(d.blocks)
        extents == d.dip.di_format \in {"EXTENTS", "BTREE"}
    IN  IF d.dip.di_size <= XFS_DFORK_DSIZE /\ d.dip.di_format = "LOCAL"
        THEN "shortform"
        ELSE IF last = m_dir_geo.fsbcount /\ extents THEN "block"
        ELSE IF last >= m_dir_geo.leafblk + m_dir_geo.fsbcount /\ extents
        THEN IF last > m_dir_geo.leafblk + m_dir_geo.fsbcount
             THEN "node" ELSE "leaf"
        ELSE "bad"

\* the outputs of a call that did nothing
NoOutputs(layout) ==
    [layout |-> layout, res |-> 1, parent |-> NULLFSINO,
     dino_dirty |-> FALSE, repair |-> FALSE, dot |-> 0,
     dotdot |-> 0, need_root_dotdot |-> FALSE, writes |-> <<>>,
     puts |-> 0, asserts |-> {}, crashed |-> FALSE,
     badlist |-> FALSE, uncertain |-> {}]

\* the closing ASSERT, lines 2000-2002
ClosingAssert(ino, parent, need_root_dotdot) ==
    LET root == ino = m_sb.sb_rootino
    IN  \/ ~root /\ ino # parent
        \/ root /\ (ino = parent \/ need_root_dotdot)

\* what process_dir2 leaves after process_sf_dir2 returned sf
ShortformOut(d, c, sf) ==
    [dir |-> [d EXCEPT !.dip = sf.dip],
     out |-> [NoOutputs("shortform") EXCEPT
                !.res = sf.res, !.parent = sf.parent,
                !.dino_dirty = sf.dino_dirty, !.repair = sf.repair,
                !.dot = 1, !.dotdot = 1, !.uncertain = sf.uncertain,
                !.asserts = IF ClosingAssert(c.ino, sf.parent, FALSE)
                            THEN {} ELSE {2000}]]

\* what process_dir2 leaves after the block, leaf or node path ended in M,
\* lines 1985-2004
BlocksOut(d, c, layout, M) ==
    LET need_root_dotdot == M.dotdot = 0 /\ c.ino = m_sb.sb_rootino
    IN  IF M.crashed
        THEN [dir |-> [d EXCEPT !.blocks = M.blocks],
              out |-> [NoOutputs(layout) EXCEPT
                         !.res = -1, !.writes = M.writes,
                         !.puts = M.puts, !.asserts = M.asserts,
                         !.uncertain = M.uncertain,
                         !.crashed = TRUE]]
        ELSE [dir |-> [d EXCEPT !.blocks = M.blocks],
              out |-> [NoOutputs(layout) EXCEPT
                         !.res = M.rval, !.parent = M.parent,
                         !.repair = M.repair, !.dot = M.dot,
                         !.dotdot = M.dotdot,
                         !.need_root_dotdot = need_root_dotdot,
                         !.writes = M.writes, !.puts = M.puts,
                         !.asserts =
                            IF ClosingAssert(c.ino, M.parent, need_root_dotdot)
                            THEN M.asserts
                            ELSE M.asserts \cup {2000},
                         !.badlist = M.badlist,
                         !.uncertain = M.uncertain]]

\* process_dir2 on the directory d = [dip, blocks] under
\* c = [ino, no_modify, ino_discovery, badino]: the directory as it leaves
\* it and its outputs
process_dir2(d, c) ==
    IF DirLayout(d) = "bad" THEN [dir |-> d, out |-> NoOutputs("bad")]
    ELSE IF DirLayout(d) = "shortform"
    THEN ShortformOut(d, c, process_sf_dir2(d.dip, c))
    ELSE IF DirLayout(d) = "block"
    THEN BlocksOut(d, c, "block", process_block_dir2(StartM(d.blocks), c))
    ELSE BlocksOut(d, c, DirLayout(d),
                   process_leaf_node_dir2(StartM(d.blocks), c,
                                          DirLayout(d) = "node"))

----------------------------------------------------------------------------
(* Directories to check: well-formed ones and ones damaged in one place.   *)

MaxSfEntries == 2

DirInos == {m_sb.sb_rootino, 7}

\* shortform entries: every kind of inode number under a legal name, and a
\* good inode number under a damaged name, length or offset
SfGood(lino) == [namelen |-> 1, offset |-> 0, name |-> <<"a", "a">>, ino |-> lino]

SfEntryKinds ==
    {SfGood(lino) : lino \in {1, 7, 8, 9, 11, 2, 0}}
        \cup {[SfGood(7) EXCEPT !.namelen = 2, !.name = <<"a", "/">>],
              [SfGood(7) EXCEPT !.name = <<"NUL", "a">>],
              [SfGood(7) EXCEPT !.namelen = 0],
              [SfGood(7) EXCEPT !.offset = -1]}

\* how the header may be off: the parent, the count, i8count and di_size
SfHeaderKinds ==
    {[parent |-> p, dcount |-> 0, i8flip |-> FALSE, dsize |-> 0] :
        p \in {1, 7, 0, 11}}
        \cup {[parent |-> 1, dcount |-> 1, i8flip |-> FALSE, dsize |-> 0],
              [parent |-> 1, dcount |-> 0, i8flip |-> TRUE, dsize |-> 0],
              [parent |-> 1, dcount |-> 0, i8flip |-> FALSE, dsize |-> 3],
              [parent |-> 1, dcount |-> 0, i8flip |-> FALSE, dsize |-> -1]}

\* the fork and inode a writer lays out for these entries, then damaged as
\* the header kind says
SfInode(kinds, h) ==
    LET big  == Cardinality({j \in 1..Len(kinds) :
                                 kinds[j].ino > XFS_DIR2_MAX_SHORT_INUM})
                + (IF h.parent > XFS_DIR2_MAX_SHORT_INUM THEN 1 ELSE 0)
        \* a 4-byte field holds no number above the limit, so a count that
        \* is off is one too high
        i8c  == IF h.i8flip THEN big + 1 ELSE big
        RECURSIVE Off(_)
        Off(j) == IF j = 1 THEN data_first_offset
                  ELSE Off(j - 1) + data_entsize(kinds[j - 1].namelen)
        ents == [j \in 1..Len(kinds) |->
                   [kinds[j] EXCEPT !.offset = IF @ = -1 THEN 0 ELSE Off(j)]]
        sfp  == [count |-> Len(kinds) + h.dcount, i8count |-> i8c,
                 parent |-> h.parent, ents |-> ents]
        RECURSIVE End(_)
        End(j) == IF j = 0 THEN xfs_dir2_sf_hdr_size(i8c)
                  ELSE End(j - 1) + sf_entsize(sfp, ents[j].namelen)
    IN  [di_size |-> End(Len(kinds)) + h.dsize, di_format |-> "LOCAL",
         sf |-> sfp]

NoBlocks == [b \in {} |-> 0]

ShortformDirs ==
    {[dip |-> SfInode(kinds, h), blocks |-> NoBlocks] :
        kinds \in UNION {[1..n -> SfEntryKinds] : n \in 0..MaxSfEntries},
        h \in SfHeaderKinds}

BlankUnit == [freetag |-> FALSE, length |-> 0, inumber |-> 0, namelen |-> 0,
              name |-> <<"NUL", "NUL">>, tag |-> 0]

\* a buffer holds every field any of the readers takes from a block
BlankBlock == [magic |-> "", b_error |-> 0,
               bf |-> <<NoFree, NoFree, NoFree>>, u |-> <<>>,
               count |-> 0, stale |-> 0, ents |-> <<>>,
               level |-> 0, forw |-> 0, back |-> 0, btree |-> <<>>]

DataEnt(lino, namelen, name) ==
    [free |-> FALSE, len |-> EntUnits(namelen), ino |-> lino,
     namelen |-> namelen, name |-> name]

FreeItem(len) ==
    [free |-> TRUE, len |-> len, ino |-> 0, namelen |-> 0, name |-> <<>>]

\* the units of one item written at offset off
ItemUnits(it, off) ==
    IF it.free
    THEN [j \in 1..it.len |->
            [BlankUnit EXCEPT !.freetag = (j = 1),
                              !.length = IF j = 1 THEN it.len ELSE 0,
                              !.tag = IF j = it.len THEN off ELSE 0]]
    ELSE [j \in 1..it.len |->
            [BlankUnit EXCEPT !.inumber = IF j = 1 THEN it.ino ELSE 0,
                              !.namelen = IF j = 2 THEN it.namelen ELSE 0,
                              !.name = IF j = 2 THEN it.name ELSE @,
                              !.tag = IF j = it.len THEN off ELSE 0]]

RECURSIVE LayOut(_, _)
LayOut(items, off) ==
    IF items = <<>> THEN <<>>
    ELSE ItemUnits(Head(items), off)
             \o LayOut(Tail(items), off + Head(items).len)

RECURSIVE ItemsLen(_)
ItemsLen(items) ==
    IF items = <<>> THEN 0 ELSE Head(items).len + ItemsLen(Tail(items))

\* a block of magic "BLOCK" or "DATA" as a writer lays it out: the entries,
\* the rest of the data area unused, a bestfree table that matches, and in
\* a "BLOCK" one leaf entry per entry before the tail
DataBlockOf(entries, magic) ==
    LET nleaf == IF magic = "BLOCK" THEN Len(entries) ELSE 0
        endp  == IF magic = "BLOCK" THEN BlkUnits - 1 - nleaf ELSE BlkUnits
        rest  == endp - DataHdrUnits - ItemsLen(entries)
        items == IF rest > 0 THEN Append(entries, FreeItem(rest)) ELSE entries
        laid  == LayOut(items, DataHdrUnits)
        u     == [j \in 1..(BlkUnits - DataHdrUnits) |->
                    IF j <= Len(laid) THEN laid[j] ELSE BlankUnit]
        bf    == IF rest > 0
                 THEN <<[offset |-> endp - rest, length |-> rest],
                        NoFree, NoFree>>
                 ELSE <<NoFree, NoFree, NoFree>>
    IN  [BlankBlock EXCEPT !.magic = magic, !.u = u, !.bf = bf,
                           !.count = nleaf]

\* the third entry of a first block: every kind of inode number under a
\* legal name, and a good inode number under a name that is not
ThirdEntries ==
    {DataEnt(lino, 1, <<"a", "a">>) : lino \in {1, 7, 8, 9, 0, 2}}
        \cup {DataEnt(7, 2, <<"/", "a">>),
              DataEnt(7, 2, <<"a", "/">>),
              DataEnt(7, 2, <<"a", "NUL">>),
              DataEnt(7, 0, <<"a", "a">>),
              DataEnt(7, 2, <<".", ".">>),
              DataEnt(7, 1, <<".", "a">>)}

BlockDamages ==
    {"none", "tag", "bf_offset", "bf_empty", "bf_order", "bf_extra", "crc",
     "eio", "count"}

\* a block damaged in one place; the tag damaged is that of the entry at
\* offset at
Damage(blk, how, at) ==
    IF how = "tag"
    THEN [blk EXCEPT !.u[at + 1 - DataHdrUnits + 1].tag = @ + 1]
    ELSE IF how = "bf_offset" THEN [blk EXCEPT !.bf[1].offset = @ + 1]
    ELSE IF how = "bf_empty" THEN [blk EXCEPT !.bf = <<NoFree, NoFree, NoFree>>]
    \* the table's one entry in the second slot, after an empty first one
    ELSE IF how = "bf_order" THEN [blk EXCEPT !.bf = <<NoFree, @[1], NoFree>>]
    \* a second slot that names the start of the data area
    ELSE IF how = "bf_extra"
    THEN [blk EXCEPT !.bf[2] = [offset |-> DataHdrUnits, length |-> 1]]
    ELSE IF how = "crc" THEN [blk EXCEPT !.b_error = EFSBADCRC]
    ELSE IF how = "eio" THEN [blk EXCEPT !.b_error = EIO]
    ELSE IF how = "count" THEN [blk EXCEPT !.count = @ + 1]
    ELSE blk

\* first blocks: '.', '..' and a third entry
FirstBlocks(magic) ==
    {Damage(DataBlockOf(<<DataEnt(d, 1, <<".", "a">>),
                          DataEnt(dd, 2, <<".", ".">>), x>>, magic),
            how, DataHdrUnits + EntUnits(1) + EntUnits(2)) :
        d \in DirInos, dd \in DirInos, x \in ThirdEntries,
        how \in BlockDamages}

ExtentsInode == [di_size |-> m_dir_geo.blksize, di_format |-> "EXTENTS",
                 sf |-> <<>>]

BlockDirs ==
    {[dip |-> ExtentsInode, blocks |-> (m_dir_geo.datablk :> b)] :
        b \in FirstBlocks("BLOCK")}

\* second data blocks: one entry, an ordinary one or another '.' or '..'
SecondEntries ==
    {DataEnt(lino, 1, <<"a", "a">>) : lino \in {7, 0}}
        \cup {DataEnt(7, 1, <<".", "a">>), DataEnt(1, 1, <<".", "a">>),
              DataEnt(7, 2, <<".", ".">>), DataEnt(1, 2, <<".", ".">>)}

SecondBlocks ==
    {Damage(DataBlockOf(<<e>>, "DATA"), how, DataHdrUnits) :
        e \in SecondEntries, how \in {"none", "tag", "crc"}}

\* the single leaf block of a leaf directory; process_dir2 does not read it
Leaf1Block == [BlankBlock EXCEPT !.magic = "LEAF1"]

\* a data block with two unused regions, of 2 units and of the rest, under
\* a table that lists them by falling length, by rising length, or lists
\* the longer one only
TwoGapBlocks ==
    LET ents == <<DataEnt(7, 1, <<".", "a">>), DataEnt(1, 2, <<".", ".">>),
                  FreeItem(2), DataEnt(8, 1, <<"a", "a">>)>>
        gap  == [offset |-> DataHdrUnits + EntUnits(1) + EntUnits(2),
                 length |-> 2]
        rest == [offset |-> DataHdrUnits + ItemsLen(ents),
                 length |-> BlkUnits - DataHdrUnits - ItemsLen(ents)]
    IN  {[DataBlockOf(ents, "DATA") EXCEPT !.bf = t] :
            t \in {<<rest, gap, NoFree>>, <<gap, rest, NoFree>>,
                   <<rest, NoFree, NoFree>>}}

LeafDirs ==
    {[dip |-> ExtentsInode,
      blocks |-> (0 :> b) @@ (m_dir_geo.leafblk :> Leaf1Block)] :
        b \in FirstBlocks("DATA") \cup TwoGapBlocks}
    \cup
    {[dip |-> ExtentsInode,
      blocks |-> (0 :> Damage(DataBlockOf(
                         <<DataEnt(7, 1, <<".", "a">>),
                           DataEnt(1, 2, <<".", ".">>),
                           DataEnt(8, 1, <<"a", "a">>)>>, "DATA"),
                         how, DataHdrUnits))
                 @@ (1 :> b) @@ (m_dir_geo.leafblk :> Leaf1Block)] :
        b \in SecondBlocks, how \in {"none", "crc", "eio", "bf_empty", "tag"}}

\* a leaf block of a node directory holding these hash values
LeafN(hashes, forw, back) ==
    [BlankBlock EXCEPT
       !.magic = "LEAFN", !.count = Len(hashes), !.forw = forw, !.back = back,
       !.ents = [j \in 1..(BlkUnits - DataHdrUnits) |->
                   IF j <= Len(hashes)
                   THEN [hashval |-> hashes[j], address |-> j]
                   ELSE [hashval |-> 0, address |-> 0]]]

\* an interior block with these <<hashval, before>> entries
DaNode(level, entries, forw, back) ==
    [BlankBlock EXCEPT
       !.magic = "NODE", !.count = Len(entries), !.level = level,
       !.forw = forw, !.back = back,
       !.btree = [j \in 1..m_dir_geo.node_ents |->
                    IF j <= Len(entries)
                    THEN [hashval |-> entries[j][1], before |-> entries[j][2]]
                    ELSE [hashval |-> 0, before |-> 0]]]

NodeDataBlock ==
    DataBlockOf(<<DataEnt(7, 1, <<".", "a">>), DataEnt(1, 2, <<".", ".">>),
                  DataEnt(8, 1, <<"a", "a">>)>>, "DATA")

\* a root over two leaves
OneLevelTree ==
    (0 :> NodeDataBlock)
    @@ (3 :> DaNode(1, << <<20, 4>>, <<40, 5>> >>, 0, 0))
    @@ (4 :> LeafN(<<10, 20>>, 5, 0))
    @@ (5 :> LeafN(<<30, 40>>, 0, 4))

\* a root over two leaves whose chain goes on for two leaves more
LongChainTree ==
    [OneLevelTree EXCEPT ![5].forw = 6]
    @@ (6 :> LeafN(<<50>>, 7, 5))
    @@ (7 :> LeafN(<<60>>, 0, 6))

\* a root over three interior blocks over four leaves
TwoLevelTree ==
    (0 :> NodeDataBlock)
    @@ (3 :> DaNode(2, << <<20, 6>>, <<40, 7>>, <<60, 8>> >>, 0, 0))
    @@ (6 :> DaNode(1, << <<20, 4>> >>, 7, 0))
    @@ (7 :> DaNode(1, << <<40, 5>> >>, 8, 6))
    @@ (8 :> DaNode(1, << <<50, 9>>, <<60, 10>> >>, 0, 7))
    @@ (4 :> LeafN(<<10, 20>>, 5, 0))
    @@ (5 :> LeafN(<<30, 40>>, 9, 4))
    @@ (9 :> LeafN(<<50>>, 10, 5))
    @@ (10 :> LeafN(<<60>>, 0, 9))

\* a root over three interior blocks over three leaves: the rightmost
\* interior block holds a single entry
LoneRightTree ==
    (0 :> NodeDataBlock)
    @@ (3 :> DaNode(2, << <<20, 6>>, <<40, 7>>, <<50, 8>> >>, 0, 0))
    @@ (6 :> DaNode(1, << <<20, 4>> >>, 7, 0))
    @@ (7 :> DaNode(1, << <<40, 5>> >>, 8, 6))
    @@ (8 :> DaNode(1, << <<50, 9>> >>, 0, 7))
    @@ (4 :> LeafN(<<10, 20>>, 5, 0))
    @@ (5 :> LeafN(<<30, 40>>, 9, 4))
    @@ (9 :> LeafN(<<50>>, 0, 5))

\* a root with a single entry over one leaf
LoneRootTree ==
    (0 :> NodeDataBlock)
    @@ (3 :> DaNode(1, << <<20, 4>> >>, 0, 0))
    @@ (4 :> LeafN(<<10, 20>>, 0, 0))

\* a root over two leaves whose level field says 2 and whose first hashval
\* is one too high
ShallowTree ==
    [OneLevelTree EXCEPT ![3].level = 2, ![3].btree[1].hashval = 21]

\* a root over three leaves whose entries all have one hash value
FlatTree ==
    (0 :> NodeDataBlock)
    @@ (3 :> DaNode(1, << <<20, 4>>, <<20, 5>>, <<20, 6>> >>, 0, 0))
    @@ (4 :> LeafN(<<20>>, 5, 0))
    @@ (5 :> LeafN(<<20, 20>>, 6, 4))
    @@ (6 :> LeafN(<<20>>, 0, 5))

\* the places a tree is damaged in: a block and what is wrong with it
TreeDamages ==
    {<<b, how>> : b \in {3, 4, 5, 6, 7, 8},
                  how \in {"none", "hash_first", "hash_last", "crc", "eio",
                           "magic", "back", "stale", "before", "count",
                           "level", "order", "stale_low", "forw_self",
                           "forw_back", "forw_first"}}

DamageTree(blocks, b, how) ==
    LET blk == blocks[b]
        n   == blk.count
    IN  IF b \notin DOMAIN blocks \/ how = "none" THEN blocks
        ELSE IF how = "hash_first" /\ blk.magic = "NODE"
        THEN [blocks EXCEPT ![b].btree[1].hashval = @ + 1]
        ELSE IF how = "hash_last" /\ blk.magic = "NODE"
        THEN [blocks EXCEPT ![b].btree[n].hashval = @ + 1]
        ELSE IF how = "before" /\ blk.magic = "NODE"
        THEN [blocks EXCEPT ![b].btree[1].before = @ + 1]
        ELSE IF how = "level" /\ blk.magic = "NODE"
        THEN [blocks EXCEPT ![b].level = @ + 1]
        ELSE IF how = "order" /\ blk.magic = "LEAFN"
        THEN [blocks EXCEPT ![b].ents[1].hashval = blk.ents[n].hashval + 1]
        ELSE IF how = "stale" /\ blk.magic = "LEAFN"
        THEN [blocks EXCEPT ![b].stale = @ + 1]
        \* the first entry is a stale one with a low hash value, and the
        \* last live one is above it
        ELSE IF how = "stale_low" /\ blk.magic = "LEAFN"
        THEN [blocks EXCEPT
                ![b].stale = @ + 1,
                ![b].ents = [j \in DOMAIN @ |->
                               IF j = 1
                               THEN [hashval |-> 5,
                                     address |-> XFS_DIR2_NULL_DATAPTR]
                               ELSE IF j = n
                               THEN [@[j] EXCEPT !.hashval = 15]
                               ELSE @[j]]]
        ELSE IF how = "crc" THEN [blocks EXCEPT ![b].b_error = EFSBADCRC]
        ELSE IF how = "eio" THEN [blocks EXCEPT ![b].b_error = EIO]
        ELSE IF how = "magic"
        THEN [blocks EXCEPT ![b].magic =
                                IF @ = "NODE" THEN "LEAFN" ELSE "NODE"]
        ELSE IF how = "back" THEN [blocks EXCEPT ![b].back = @ + 1]
        \* forw leads to the block itself, to the one before it, or to the
        \* first leaf
        ELSE IF how = "forw_self" THEN [blocks EXCEPT ![b].forw = b]
        ELSE IF how = "forw_back" /\ blk.back # 0
        THEN [blocks EXCEPT ![b].forw = blk.back]
        ELSE IF how = "forw_first" /\ blk.magic = "LEAFN"
        THEN [blocks EXCEPT ![b].forw = 4]
        ELSE IF how = "count" /\ n > 1 THEN [blocks EXCEPT ![b].count = @ - 1]
        ELSE blocks

NodeDirs ==
    {[dip |-> ExtentsInode, blocks |-> DamageTree(t, d[1], d[2])] :
        t \in {OneLevelTree, LongChainTree, TwoLevelTree, LoneRightTree,
               LoneRootTree, FlatTree, ShallowTree},
        d \in TreeDamages}

\* directories whose size, format and block map do not go together, and the
\* ones next to them that do: every inode below over every map below
OddInodes ==
    LET sfi == SfInode(<<SfGood(7)>>,
                       [parent |-> 1, dcount |-> 0, i8flip |-> FALSE,
                        dsize |-> 0])
    IN  {sfi, [sfi EXCEPT !.di_size = XFS_DFORK_DSIZE + 1]}
        \cup {[ExtentsInode EXCEPT !.di_format = f, !.di_size = s] :
                 f \in {"EXTENTS", "BTREE", "DEV"},
                 s \in {m_dir_geo.blksize, XFS_DFORK_DSIZE}}

OddMaps ==
    {NoBlocks,
     (m_dir_geo.datablk :>
         DataBlockOf(<<DataEnt(7, 1, <<".", "a">>),
                       DataEnt(1, 2, <<".", ".">>)>>, "BLOCK")),
     (0 :> NodeDataBlock) @@ (1 :> NodeDataBlock),
     (0 :> NodeDataBlock) @@ (m_dir_geo.leafblk :> Leaf1Block),
     OneLevelTree}

OddDirs == {[dip |-> i, blocks |-> m] : i \in OddInodes, m \in OddMaps}

DirContexts(d) ==
    [ino : DirInos, no_modify : BOOLEAN, ino_discovery : BOOLEAN,
     badino : IF blkmap_last_off(d.blocks) >
                     m_dir_geo.leafblk + m_dir_geo.fsbcount
              THEN BOOLEAN ELSE {FALSE}]

Directories ==
    ShortformDirs \cup BlockDirs \cup LeafDirs \cup NodeDirs \cup OddDirs

InitDir ==
    /\ dir0 \in Directories
    /\ dir = dir0
    /\ dctx \in DirContexts(dir0)
    /\ dres = <<>>
    /\ pc = "dir"
    /\ disk = <<>>
    /\ ReplayIdle
    /\ ScanIdle
    /\ UnpackIdle

\* one call of process_dir2(mp, ino, dip, ino_discovery, &dino_dirty, ...)
ProcessDir2 ==
    /\ pc = "dir"
    /\ LET r == process_dir2(dir, dctx)
       IN  /\ dir' = r.dir
           /\ dres' = r.out
    /\ pc' = "checked"
    /\ UNCHANGED <<dir0, dctx>>

NextDir ==
    /\ ProcessDir2
    /\ UNCHANGED <<written, disk, head_blk, tail_blk, pass, blk_no, rhash,
                   delivered, nops, nrecs, error, bufs>>
    /\ UNCHANGED <<scanVars, unpackVars>>

SpecDir == InitDir /\ [][NextDir]_vars

----------------------------------------------------------------------------
(* Properties of the replay.                                               *)

DeliveredTids == [i \in 1..Len(delivered) |-> delivered[i].trans.r_log_tid]

CarriesCommit(op) == XLOG_COMMIT_TRANS \in op.oh_flags

\* The reference reading of an operation sequence: which operations commit a
\* transaction that is in flight, and where the pass has to stop.
\* The result is [out, err, n]: the committed tids in order, whether a
\* protocol error was met, and the operations consumed.
RECURSIVE RefWalk(_, _, _, _)
RefWalk(ops, i, inflight, out) ==
    IF i > Len(ops) THEN [out |-> out, err |-> FALSE, n |-> Len(ops)]
    ELSE
        LET t == ops[i].oh_tid
            f == MaskedFlags(ops[i].oh_flags)
        IN  IF t \notin inflight THEN
                RefWalk(ops, i + 1,
                        IF XLOG_START_TRANS \in ops[i].oh_flags
                        THEN inflight \cup {t} ELSE inflight, out)
            ELSE IF f = {XLOG_COMMIT_TRANS} THEN
                RefWalk(ops, i + 1, inflight \ {t}, Append(out, t))
            ELSE IF f \in {{XLOG_UNMOUNT_TRANS}, {XLOG_WAS_CONT_TRANS}, {},
                           {XLOG_CONTINUE_TRANS}} THEN
                RefWalk(ops, i + 1, inflight, out)
            ELSE [out |-> out, err |-> TRUE, n |-> i]

Reference == RefWalk(written, 1, {}, <<>>)

TimesDelivered(t) == Cardinality({i \in 1..Len(delivered) : DeliveredTids[i] = t})

\* C1 as stated: at the end of a pass that returned 0, every tid with a
\* COMMIT operation in the active log has been handed to the commit handler
\* exactly once, and every other tid never.
C1_AsStated ==
    (pc = "done" /\ error = 0) =>
        \A i \in 1..Len(written) :
            LET t == written[i].oh_tid
            IN  TimesDelivered(t) =
                    IF \E j \in 1..Len(written) :
                           written[j].oh_tid = t /\ CarriesCommit(written[j])
                    THEN 1 ELSE 0

\* C1 as amended: the tids handed to the commit handler are, in order, those
\* of the COMMIT operations met while their tid was in flight (its START was
\* met earlier in the pass and it has not been committed since); a COMMIT
\* for a tid that is not in flight hands nothing over, and the pass stops at
\* the first protocol error and only there.
C1_DeliveredIffCommittedInFlight ==
    pc = "done" =>
        /\ DeliveredTids = Reference.out
        /\ (error # 0) = Reference.err
        /\ nops = Reference.n
        /\ \A i \in 1..Len(delivered) : delivered[i].pass = pass

\* a finished pass that handed one tid over twice and skipped a COMMIT whose
\* tid was not in flight
C1_Witness ==
    /\ pc = "done"
    /\ error = 0
    /\ TimesDelivered(FirstTid) = 2
    /\ tail_blk > head_blk

C1_WitnessSkipped ==
    /\ pc = "done"
    /\ error = 0
    /\ Len(delivered) = 1
    /\ \E j \in 1..Len(written) :
           CarriesCommit(written[j]) /\ TimesDelivered(written[j].oh_tid) = 0

\* C2: the transactions are handed to the commit handler in the order of
\* their COMMIT operations in the log read from tail to head, also when the
\* active log wraps past the physical end, whatever the order of their START
\* operations and whichever hash chain holds them: the i-th transaction
\* handed over is the one named by a COMMIT operation of the log, and that
\* operation lies after the one of the (i-1)-th.
C2_CommitOrder ==
    \A i \in 1..Len(delivered) :
        LET c == delivered[i].seq
        IN  /\ c \in 1..Len(written)
            /\ CarriesCommit(written[c])
            /\ written[c].oh_tid = delivered[i].trans.r_log_tid
            /\ i > 1 => delivered[i - 1].seq < c

\* a wrapped log whose two transactions share a hash chain and commit in the
\* reverse of the order they started in
C2_Witness ==
    /\ pc = "done"
    /\ tail_blk > head_blk
    /\ DeliveredTids = <<ClientTids[2], FirstTid>>
    /\ XLOG_RHASH(ClientTids[2]) = XLOG_RHASH(FirstTid)
    /\ \E i, j \in 1..Len(written) :
           /\ i < j
           /\ written[i].oh_tid = FirstTid /\ XLOG_START_TRANS \in written[i].oh_flags
           /\ written[j].oh_tid = ClientTids[2] /\ XLOG_START_TRANS \in written[j].oh_flags

\* the START operation that opened the transaction committed at operation c
StartOf(c) ==
    MaxOf({s \in 1..(c - 1) : /\ written[s].oh_tid = written[c].oh_tid
                              /\ XLOG_START_TRANS \in written[s].oh_flags})

\* the payloads of a sequence of operations: an operation flagged WAS_CONT
\* carries the rest of the payload before it
RECURSIVE JoinContinued(_, _)
JoinContinued(ops, out) ==
    IF ops = <<>> THEN out
    ELSE IF MaskedFlags(Head(ops).oh_flags) = {XLOG_WAS_CONT_TRANS} /\ out # <<>>
    THEN JoinContinued(Tail(ops),
                       [out EXCEPT ![Len(out)] = @ \o Head(ops).data])
    ELSE JoinContinued(Tail(ops), Append(out, Head(ops).data))

\* the payloads logged for the tid of operation c between its START and c,
\* by the operations that log one (no flag, CONTINUE or WAS_CONT)
PayloadsOf(c) ==
    JoinContinued(
        SelectSeq(SubSeq(written, StartOf(c) + 1, c - 1),
                  LAMBDA o : /\ o.oh_tid = written[c].oh_tid
                             /\ o.data # <<>>
                             /\ MaskedFlags(o.oh_flags) \in
                                    {{}, {XLOG_CONTINUE_TRANS},
                                     {XLOG_WAS_CONT_TRANS}}),
        <<>>)

\* the regions of the items of a transaction, item by item
ItemRegions(trans) ==
    SelectSeq([k \in 1..Len(trans.r_itemq) |-> trans.r_itemq[k].ri_buf],
              LAMBDA b : b # <<>>)

\* regions grouped into items: the first region of an item says how many
\* regions the item has
RECURSIVE GroupRegions(_)
GroupRegions(rs) ==
    IF rs = <<>> THEN <<>>
    ELSE LET n == Min(ilf_size(rs[1]), Len(rs))
         IN  IF n = 0 THEN <<rs>>
             ELSE <<SubSeq(rs, 1, n)>> \o GroupRegions(SubSeq(rs, n + 1, Len(rs)))

----------------------------------------------------------------------------
(* Properties of the search for head and tail.                             *)

CycleOf(b) == GET_CYCLE(DiskBlock(disk, b))
Blocks == 0..(Len(disk) - 1)

\* the writer went round the device at least once and every write arrived
FullyWritten == gen.lost = -1 /\ StreamLen(gen) >= gen.L

\* C4: on a log of L blocks that was written once in full and then
\* overwritten from block 0 for k blocks (0 <= k < L) up to the end of a
\* record, so that blocks [0,k) carry cycle x+1 and blocks [k,L) cycle x,
\* xlog_find_head returns 0 with head block k; with k = 0 the whole log
\* carries one cycle and the head is block 0.
C4_HeadAfterWrap ==
    (pc \in {"head", "tail"} /\ FullyWritten) =>
        LET k == StreamLen(gen) % gen.L
            x == StreamLen(gen) \div gen.L
        IN  /\ \A b \in Blocks : CycleOf(b) = IF b < k THEN x + 1 ELSE x
            /\ hres.error = 0
            /\ hres.assigned
            /\ hres.head_blk = k

\* a log gone round twice whose last record lies across the physical end
C4_Witness ==
    /\ pc = "head"
    /\ FullyWritten
    /\ StreamLen(gen) \div gen.L = 2
    /\ hres.head_blk = 1
    /\ DiskBlock(disk, 0).w0 # XLOG_HEADER_MAGIC_NUM

ReportsTotallyZeroed == zres.error = -1 /\ zres.assigned /\ zres.blk_no = 0

\* C5 as stated: xlog_find_zeroed returns -1 with block number 0 exactly
\* when the cycle number of every block of the log is 0.
C5_AsStated ==
    pc = "zeroed" => (ReportsTotallyZeroed <=> \A b \in Blocks : CycleOf(b) = 0)

\* the first block with cycle 0
FirstZeroBlock == MinOf({b \in Blocks : CycleOf(b) = 0})

HeadersBefore(j) ==
    {b \in 0..(j - 1) : DiskBlock(disk, b).w0 = XLOG_HEADER_MAGIC_NUM}

\* the log was written from block 0 and what lies before its first zeroed
\* block is one record, begun at block 0 and not complete
OnlyAPartialRecord ==
    /\ CycleOf(0) = 1
    /\ CycleOf(Len(disk) - 1) = 0
    /\ HeadersBefore(FirstZeroBlock) = {0}
    /\ FirstZeroBlock # BTOBB(DiskBlock(disk, 0).h_len) + 1

\* C5 as amended: xlog_find_zeroed returns -1 with block number 0 whenever
\* the cycle number of block 0 is 0, whatever the other blocks hold, so also
\* on a log whose blocks all have cycle 0; with another cycle in block 0 it
\* does so only on a partially zeroed log whose written part is a single
\* incomplete record at block 0, which it backs over.
C5_ZeroedIffFirstBlockZero ==
    pc = "zeroed" =>
        /\ CycleOf(0) = 0 => ReportsTotallyZeroed
        /\ ReportsTotallyZeroed => (CycleOf(0) = 0 \/ OnlyAPartialRecord)
        /\ (\A b \in Blocks : CycleOf(b) = 0) => ReportsTotallyZeroed

\* the first write was lost and later ones arrived: reported as zeroed
C5_Witness ==
    /\ pc = "zeroed"
    /\ ReportsTotallyZeroed
    /\ \E b \in Blocks : CycleOf(b) # 0

\* C6 (as stated): xlog_find_zeroed returns -1 with the number of the first
\* block whose cycle is 0 exactly when cycle[0] = 1 and cycle[L-1] = 0.
C6_AsStated ==
    pc = "zeroed" =>
        ((CycleOf(0) = 1 /\ CycleOf(Len(disk) - 1) = 0)
            <=> (/\ zres.error = -1
                 /\ zres.assigned
                 /\ zres.blk_no # 0
                 /\ zres.blk_no = FirstZeroBlock))

\* the record header nearest before the head: the last one in head-1..0
\* and, when there is none, the last one in L-1..head
HeadersIn(S) == {b \in S : DiskBlock(disk, b).w0 = XLOG_HEADER_MAGIC_NUM}

NearestHeader(head) ==
    IF HeadersIn(0..(head - 1)) # {} THEN MaxOf(HeadersIn(0..(head - 1)))
    ELSE MaxOf(HeadersIn(head..(Len(disk) - 1)))

\* C7 as stated: below the head that xlog_find_head found, the tail comes
\* from the header nearest before the head, and without any header the
\* call fails with an I/O error.
C7_AsStated ==
    (pc = "tail" /\ hres.error = 0) =>
        IF HeadersIn(Blocks) = {} THEN tres.error = EIO
        ELSE /\ tres.error = 0
             /\ tres.l_prev_block = NearestHeader(tres.head_blk)

\* C7 as amended: when the head is block 0 and block 0 has cycle 0 the tail
\* is block 0 and no header is looked for, so a log without any header that
\* is zeroed is no error; in every other case the header is the last one in
\* head-1..0 or, if there is none, the last one in L-1..head, the tail is
\* the block of its h_tail_lsn unless the head lies two blocks behind it,
\* and a log without a header fails with EIO.  An error of xlog_find_head
\* is passed on.
C7_TailFromNearestHeader ==
    pc = "tail" =>
        IF hres.error # 0 THEN tres.error = hres.error
        ELSE IF tres.head_blk = 0 /\ CycleOf(0) = 0
        THEN tres.error = 0 /\ tres.tail_blk = 0 /\ tres.found = 0
        ELSE IF HeadersIn(Blocks) = {} THEN tres.error = EIO
        ELSE LET i == NearestHeader(tres.head_blk)
             IN  /\ tres.error = 0
                 /\ tres.l_prev_block = i
                 /\ tres.found = IF i < tres.head_blk THEN 1 ELSE 2
                 /\ \/ tres.tail_blk = BLOCK_LSN(DiskBlock(disk, i).h_tail_lsn)
                    \/ tres.head_blk = (i + 2) % Len(disk)

\* the header was found in the second search, at the physical end, with
\* older headers lying between the head and it
C7_Witness ==
    /\ pc = "tail"
    /\ tres.error = 0
    /\ tres.found = 2
    /\ Cardinality(HeadersIn(Blocks)) > 1
    /\ tres.tail_blk # tres.head_blk

\* a zeroed log: no header anywhere, and the call returns 0
C7_WitnessZeroed ==
    /\ pc = "tail"
    /\ HeadersIn(Blocks) = {}
    /\ tres.error = 0

C8_WitnessNotUnmount ==
    /\ pc = "tail"
    /\ tres.error = 0
    /\ gen.last.um /\ gen.last.nops = 2
    /\ tres.head_blk = (tres.l_prev_block + 2) % Len(disk)
    /\ tres.tail_blk # tres.head_blk

----------------------------------------------------------------------------
(* Properties of unpacking.                                                *)

\* C9: xlog_unpack_data gives back the data area that was packed, for every
\* h_len; it stores to the first word of blocks 0 .. BTOBB(h_len)-1, the
\* word h_cycle_data keeps for the block, and to nothing else.
C9_UnpackRestores ==
    pc = "unpacked" =>
        /\ ubuf = udata
        /\ Len(ubuf) = Len(upacked)
        /\ \A i \in 1..Len(ubuf) :
               /\ ubuf[i].rest = upacked[i].rest
               /\ ubuf[i].w0 = IF i <= BTOBB(uhead.h_len)
                               THEN uhead.h_cycle_data[i] ELSE upacked[i].w0

\* a record that ends inside its second block, in a longer buffer, whose
\* first words all differ from the cycle number stamped over them
C9_Witness ==
    /\ pc = "unpacked"
    /\ BTOBB(uhead.h_len) = 2
    /\ uhead.h_len % BBSIZE # 0
    /\ Len(ubuf) > 2
    /\ \A i \in 1..2 : upacked[i].w0 # udata[i].w0

----------------------------------------------------------------------------
(* Properties of the directory check.                                      *)

\* what process_dir2 does to the same directory when it may write
WithWrites == process_dir2(dir0, [dctx EXCEPT !.no_modify = FALSE])

\* C10: with no_modify set, process_dir2 leaves the inode fork and every
\* directory block as it found them, hands no buffer to libxfs_writebuf and
\* does not set *dino_dirty, whatever the layout of the directory.
C10_NoModifyFrame ==
    (pc = "checked" /\ dctx.no_modify) =>
        /\ dir = dir0
        /\ dres.writes = <<>>
        /\ ~dres.dino_dirty

\* a node directory checked under no_modify in which a run that may write
\* corrects an interior hashval, writes two blocks and reports success
C10_Witness ==
    /\ pc = "checked"
    /\ dctx.no_modify
    /\ dres.layout = "node"
    /\ dres.res = 0 /\ ~dres.badlist /\ ~dres.crashed
    /\ dres.puts > 0
    /\ Len(WithWrites.out.writes) >= 2
    /\ \E b \in DOMAIN dir0.blocks :
           /\ dir0.blocks[b].magic = "NODE"
           /\ WithWrites.dir.blocks[b] # dir0.blocks[b]

\* a shortform directory under no_modify from which a run that may write
\* removes an entry and corrects the header
C10_WitnessShortform ==
    /\ pc = "checked"
    /\ dctx.no_modify
    /\ dres.layout = "shortform"
    /\ WithWrites.out.dino_dirty
    /\ Len(WithWrites.dir.dip.sf.ents) < Len(dir0.dip.sf.ents)
    /\ WithWrites.dir.dip.sf.parent # dir0.dip.sf.parent

\* a block directory under no_modify, read with a bad CRC, which a run that
\* may write changes and writes back
C10_WitnessBlock ==
    /\ pc = "checked"
    /\ dctx.no_modify
    /\ dres.layout = "block"
    /\ dres.res = 0
    /\ dir0.blocks[0].b_error = EFSBADCRC
    /\ WithWrites.out.writes = <<0>>
    /\ WithWrites.dir.blocks[0].u # dir0.blocks[0].u

\* a leaf directory of two data blocks under no_modify, both of which a run
\* that may write writes back, the first with its bestfree table rebuilt
C10_WitnessLeaf ==
    /\ pc = "checked"
    /\ dctx.no_modify
    /\ dres.layout = "leaf"
    /\ dres.puts = 2
    /\ WithWrites.out.writes = <<0, 1>>
    /\ WithWrites.dir.blocks[0].bf # dir0.blocks[0].bf

\* the end of the block map of the directory as it was found
LastOff ==
    IF DOMAIN dir0.blocks = {} THEN 0 ELSE MaxOf(DOMAIN dir0.blocks) + 1

\* the layout the size, the format and the end of the block map stand for
LayoutOf ==
    LET extents == dir0.dip.di_format \in {"EXTENTS", "BTREE"}
    IN  IF dir0.dip.di_format = "LOCAL" /\ dir0.dip.di_size <= XFS_DFORK_DSIZE
        THEN "shortform"
        ELSE IF extents /\ LastOff = m_dir_geo.fsbcount THEN "block"
        ELSE IF extents /\ LastOff = m_dir_geo.leafblk + m_dir_geo.fsbcount
        THEN "leaf"
        ELSE IF extents /\ LastOff > m_dir_geo.leafblk + m_dir_geo.fsbcount
        THEN "node"
        ELSE "bad"

\* C11: process_dir2 takes the one path that the size, the format and the
\* end of the block map stand for: shortform, block, leaf or node; the
\* shortform path touches no buffer and the other paths leave the inode
\* alone; for every other combination it runs no path, touches nothing and
\* returns 1.
C11_LayoutDispatch ==
    pc = "checked" =>
        /\ dres.layout = LayoutOf
        /\ dres.layout = "shortform" =>
               /\ dres.puts = 0 /\ dres.writes = <<>>
               /\ dir.blocks = dir0.blocks
        /\ dres.layout \in {"block", "leaf", "node"} =>
               /\ dir.dip = dir0.dip
               /\ ~dres.dino_dirty
        /\ dres.layout = "bad" =>
               /\ dres.res = 1
               /\ dir = dir0
               /\ dres.puts = 0 /\ dres.writes = <<>>
               /\ ~dres.dino_dirty /\ ~dres.repair
               /\ dres.parent = NULLFSINO

\* an inode in extents format whose map ends after two data blocks, short
\* of the leaf block: no path is run
C11_Witness ==
    /\ pc = "checked"
    /\ dir0.dip.di_format = "EXTENTS"
    /\ LastOff = 2
    /\ dres.layout = "bad"
    /\ dres.res = 1

\* two shortform entries with the same name and inode number
SameSfEntry(a, b) ==
    a.namelen = b.namelen /\ a.name = b.name /\ a.ino = b.ino

\* a is b with some of its entries left out
RECURSIVE LeftOver(_, _)
LeftOver(a, b) ==
    IF a = <<>> THEN TRUE
    ELSE IF b = <<>> THEN FALSE
    ELSE \/ SameSfEntry(Head(a), Head(b)) /\ LeftOver(Tail(a), Tail(b))
         \/ LeftOver(a, Tail(b))

\* where entry number n of a fork ends, the header for n = 0
RECURSIVE SfEndOf(_, _)
SfEndOf(sfp, n) ==
    IF n = 0 THEN xfs_dir2_sf_hdr_size(sfp.i8count)
    ELSE SfEndOf(sfp, n - 1) + sf_entsize(sfp, sfp.ents[n].namelen)

\* the call was on a shortform directory and was allowed to write
SfWritten == pc = "checked" /\ dres.layout = "shortform" /\ ~dctx.no_modify

\* C12: after process_sf_dir2 with writes allowed, the count entries the
\* fork holds are entries of the fork as it was found, in their order and
\* with their names and inode numbers, each with a name, and di_size is
\* where the last of them ends.
C12_ForkAfterRemoval ==
    SfWritten =>
        LET sfp == dir.dip.sf
        IN  /\ sfp.count <= Len(sfp.ents)
            /\ \A j \in 1..sfp.count : sfp.ents[j].namelen > 0
            /\ LeftOver(SubSeq(sfp.ents, 1, sfp.count), dir0.dip.sf.ents)
            /\ dir.dip.di_size = SfEndOf(sfp, sfp.count)

\* the first of two entries was taken out and the second is now the only
\* one
C12_Witness ==
    /\ SfWritten
    /\ Len(dir0.dip.sf.ents) = 2
    /\ dir0.dip.sf.count = 2
    /\ ~SameSfEntry(dir0.dip.sf.ents[1], dir0.dip.sf.ents[2])
    /\ dir.dip.sf.count = 1
    /\ SameSfEntry(dir.dip.sf.ents[1], dir0.dip.sf.ents[2])
    /\ dir.dip.di_size < dir0.dip.di_size
    /\ dres.dino_dirty

\* the entries the fork holds whose inode number needs 8 bytes
BigEntries(sfp) ==
    {j \in 1..Min(sfp.count, Len(sfp.ents)) :
        sfp.ents[j].ino > XFS_DIR2_MAX_SHORT_INUM}

\* C13, as the claim words it: after process_sf_dir2 with writes allowed
\* the stored i8count is the number of entries left whose inode number is
\* above XFS_DIR2_MAX_SHORT_INUM.
C13_AsStated ==
    SfWritten => dir.dip.sf.i8count = Cardinality(BigEntries(dir.dip.sf))

\* process_node_dir2 was called and returned 0 after walking the leaves
NodeWalked ==
    /\ pc = "checked" /\ dres.layout = "node" /\ ~dctx.badino
    /\ ~dres.crashed /\ dres.res = 0
    /\ dir.blocks[m_dir_geo.leafblk].magic = "NODE"

NodeSuccess == NodeWalked /\ ~dres.badlist

\* the interior blocks of the tree under block bno, at most depth levels
RECURSIVE InteriorBelow(_, _, _)
InteriorBelow(blocks, bno, depth) ==
    IF depth = 0 \/ bno \notin DOMAIN blocks THEN {}
    ELSE IF blocks[bno].magic # "NODE" THEN {}
    ELSE {bno} \cup
         UNION {InteriorBelow(blocks, BtreeAt(blocks[bno], j).before, depth - 1) :
                   j \in 0..(Min(blocks[bno].count, m_dir_geo.node_ents) - 1)}

InteriorBlocks(blocks) ==
    InteriorBelow(blocks, m_dir_geo.leafblk, XFS_DA_NODE_MAXDEPTH)

\* the hashval of the last entry of a leaf or interior block
LastHashval(blk) ==
    IF blk.magic = "NODE" /\ blk.count \in DOMAIN blk.btree
    THEN BtreeAt(blk, blk.count - 1).hashval
    ELSE IF blk.magic # "NODE" /\ blk.count \in DOMAIN blk.ents
    THEN blk.ents[blk.count].hashval
    ELSE -1

\* every entry of every interior block has the hashval of the last entry of
\* the block it points to, and each interior block that was patched was
\* written
InteriorHashvalsRight ==
    \A b \in InteriorBlocks(dir.blocks) :
        /\ \A j \in 0..(dir.blocks[b].count - 1) :
              LET e == BtreeAt(dir.blocks[b], j)
              IN  /\ e.before \in DOMAIN dir.blocks
                  /\ dir.blocks[e.before].count > 0
                  /\ e.hashval = LastHashval(dir.blocks[e.before])
        /\ dir.blocks[b] # dir0.blocks[b] =>
              \E k \in 1..Len(dres.writes) : dres.writes[k] = b

\* C14 (as stated): after process_node_dir2 returned 0 with writes allowed,
\* every entry (hashval, before) of every interior block of the tree, the
\* last entries of the rightmost blocks too, has the hashval of the last
\* entry of block before.
C14_AsStated ==
    NodeSuccess /\ ~dctx.no_modify => InteriorHashvalsRight

\* after a leaf-level walk that returned 0 with writes allowed (a call in
\* which the release of the cursor found no buffer held) the interior
\* hashvals are right
C14_InteriorHashvals ==
    NodeSuccess /\ ~dctx.no_modify /\ 290 \notin dres.asserts =>
        InteriorHashvalsRight

\* a two-level tree whose rightmost interior block had a wrong hashval in
\* its last entry, patched and written
C14_Witness ==
    /\ NodeSuccess /\ ~dctx.no_modify /\ 290 \notin dres.asserts
    /\ Cardinality(InteriorBlocks(dir.blocks)) > 1
    /\ \E b \in InteriorBlocks(dir.blocks) :
          /\ dir.blocks[b].forw = 0 /\ dir.blocks[b].level = 1
          /\ BtreeAt(dir.blocks[b], dir.blocks[b].count - 1)
               # BtreeAt(dir0.blocks[b], dir.blocks[b].count - 1)

\* an entry that is not on the right edge was patched
C14_WitnessInner ==
    /\ NodeSuccess /\ ~dctx.no_modify /\ 290 \notin dres.asserts
    /\ \E b \in InteriorBlocks(dir.blocks) :
          BtreeAt(dir.blocks[b], 0) # BtreeAt(dir0.blocks[b], 0)

\* the leaf the leftmost path of the tree ends in
RECURSIVE LeftmostLeaf(_, _, _)
LeftmostLeaf(blocks, bno, depth) ==
    IF depth = 0 \/ bno \notin DOMAIN blocks THEN 0
    ELSE IF blocks[bno].magic = "NODE"
    THEN LeftmostLeaf(blocks, BtreeAt(blocks[bno], 0).before, depth - 1)
    ELSE bno

\* the entries of the leaves from bno on along forw, left to right
RECURSIVE LeafChain(_, _, _)
LeafChain(blocks, bno, fuel) ==
    IF fuel = 0 \/ bno = 0 \/ bno \notin DOMAIN blocks THEN <<>>
    ELSE SubSeq(blocks[bno].ents, 1, blocks[bno].count)
         \o LeafChain(blocks, blocks[bno].forw, fuel - 1)

ChainEntries ==
    LeafChain(dir.blocks,
              LeftmostLeaf(dir.blocks, m_dir_geo.leafblk, XFS_DA_NODE_MAXDEPTH),
              Cardinality(DOMAIN dir.blocks))

\* the entries of a chain that are in use
RECURSIVE LiveEntries(_)
LiveEntries(s) ==
    IF s = <<>> THEN <<>>
    ELSE IF s[1].address = XFS_DIR2_NULL_DATAPTR THEN LiveEntries(Tail(s))
    ELSE <<s[1]>> \o LiveEntries(Tail(s))

NonDecreasing(s) ==
    \A j \in 1..(Len(s) - 1) : s[j].hashval <= s[j + 1].hashval

\* C15, as the claim words it: whenever the leaf-level walk of a node
\* directory returns 0, the hashvals of the leaf entries, read left to right
\* within each leaf and from leaf to leaf along forw, never decrease.
C15_AsStated == NodeSuccess => NonDecreasing(ChainEntries)

\* the state process_leaf_node_dir2 is in after its loop over the data blocks
AfterDataBlocks == DataBlocks(StartM(dir0.blocks), -1, dctx)

\* process_leaf_node_dir2 got as far as calling process_node_dir2
NodeCheckCalled ==
    /\ pc = "checked" /\ DirLayout(dir0) = "node"
    /\ ~dctx.badino /\ AfterDataBlocks.good # 0

\* the call of process_node_dir2 returned nonzero
NodeCheckFailed(N) == NodeCheckCalled /\ ~N.crashed /\ N.rval # 0

\* C16, as the claim words it: when the node check fails the inode goes on
\* the bad-directory list and process_dir2 returns nonzero.
C16_AsStated ==
    NodeCheckFailed(process_node_dir2(AfterDataBlocks, dctx)) =>
        dres.badlist /\ dres.res # 0

\* C16: when process_node_dir2 returns nonzero the inode goes on the
\* bad-directory list and process_dir2 returns 0; the inode is on the list
\* after a call only when process_node_dir2 was called and returned nonzero.
C16_BadTreeListedAndKept ==
    /\ NodeCheckFailed(process_node_dir2(AfterDataBlocks, dctx)) =>
           dres.badlist /\ dres.res = 0
    /\ pc = "checked" /\ dres.badlist =>
           NodeCheckFailed(process_node_dir2(AfterDataBlocks, dctx))

\* a tree with a wrong stale count in a leaf, found bad, listed and kept
C16_Witness ==
    /\ NodeCheckFailed(process_node_dir2(AfterDataBlocks, dctx))
    /\ dres.badlist /\ dres.res = 0
    /\ \E b \in DOMAIN dir0.blocks :
          dir0.blocks[b].magic = "LEAFN" /\ dir0.blocks[b].stale # 0

\* C17, as the claim words it for the two searches that own a buffer: the
\* buffer xlog_find_zeroed and xlog_find_tail get from xlog_get_bp has been
\* put back with xlog_put_bp when they return, whatever they return.
C17_AsStated ==
    /\ pc \in {"zeroed", "head", "tail"} => zres.released
    /\ pc = "tail" => tres.released

\* the flags as the switch sees them are none of the five it handles
BadFlags(oh_flags) ==
    \/ XLOG_START_TRANS \in oh_flags
    \/ MaskedFlags(oh_flags) \notin
           {{XLOG_COMMIT_TRANS}, {XLOG_UNMOUNT_TRANS}, {XLOG_WAS_CONT_TRANS},
            {XLOG_CONTINUE_TRANS}, {}}

\* operation k of the active log comes after a START of its tid with no
\* COMMIT of that tid in between
StartedBefore(k) ==
    \E s \in 1..(k - 1) :
        /\ written[s].oh_tid = written[k].oh_tid
        /\ XLOG_START_TRANS \in written[s].oh_flags
        /\ \A j \in (s + 1)..(k - 1) :
              written[j].oh_tid = written[k].oh_tid =>
                  MaskedFlags(written[j].oh_flags) # {XLOG_COMMIT_TRANS}

\* the operations with an in-flight tid and flags the switch rejects
BadOps ==
    {k \in 1..Len(written) : StartedBefore(k) /\ BadFlags(written[k].oh_flags)}

\* what is asked when the first such operation is number k
StopsAt(k) ==
    /\ nops <= k
    /\ \A i \in 1..Len(delivered) : delivered[i].seq < k
    /\ nops = k /\ pc # "undefined" => pc \in {"bread_err", "done"} /\ error = EIO
    /\ pc = "done" => nops = k /\ error = EIO

\* C18: the first operation that has an in-flight tid and carries START, or
\* flags that after masking are not exactly COMMIT, UNMOUNT, WAS_CONT,
\* CONTINUE or none, ends xlog_recover_process_data with EIO: it is the last
\* operation consumed, no operation after it is looked at, and neither it
\* nor a later one hands a transaction over.
C18_BadFlagsStopThePass == BadOps # {} => StopsAt(MinOf(BadOps))

\* a pass stopped by flags that are a mix of two good ones, with operations
\* of the same record left unprocessed
C18_Witness ==
    /\ BadOps # {} /\ pc = "done" /\ error = EIO
    /\ nops = MinOf(BadOps) /\ nops % (OpsPerBB * RecDataBBs) # 0
    /\ nops < Len(written)
    /\ XLOG_START_TRANS \notin written[nops].oh_flags
    /\ XLOG_COMMIT_TRANS \in written[nops].oh_flags

\* a pass stopped by a START for a tid in flight
C18_WitnessStart ==
    /\ BadOps # {} /\ pc = "done" /\ error = EIO
    /\ nops = MinOf(BadOps)
    /\ written[nops].oh_flags = {XLOG_START_TRANS}

\* the reasons the claim lists for removing the entry e of directory ino
ListedReason(e, ino, ino_discovery) ==
    \/ e.ino = ino
    \/ verify_inum(e.ino)
    \/ e.ino \in {m_sb.sb_rbmino, m_sb.sb_rsumino, m_sb.sb_uquotino,
                  m_sb.sb_gquotino, m_sb.sb_pquotino}
    \/ find_inode_rec(e.ino) /\ is_inode_free(e.ino) /\ ~ino_discovery
    \/ ~find_inode_rec(e.ino) /\ ~ino_discovery
    \/ \E i \in 1..e.namelen : NameByte(e.name, i) \in {"/", "NUL"}

\* entry j of the fork as found has a name and ends inside di_size
InsideSize(j) ==
    /\ dir0.dip.sf.ents[j].namelen > 0
    /\ SfEndOf(dir0.dip.sf, j) <= dir0.dip.di_size

\* the entries the header counts
Counted == 1..Min(dir0.dip.sf.count, Len(dir0.dip.sf.ents))

\* the entries of the fork as found whose numbers are in S, less the ones
\* with a listed reason
RECURSIVE KeptOf(_, _)
KeptOf(S, j) ==
    IF j > Len(dir0.dip.sf.ents) THEN <<>>
    ELSE IF j \in S /\ ~ListedReason(dir0.dip.sf.ents[j], dctx.ino,
                                    dctx.ino_discovery)
    THEN <<dir0.dip.sf.ents[j]>> \o KeptOf(S, j + 1)
    ELSE KeptOf(S, j + 1)

SameSfEntries(a, b) ==
    Len(a) = Len(b) /\ \A j \in 1..Len(a) : SameSfEntry(a[j], b[j])

Survivors == SubSeq(dir.dip.sf.ents, 1, dir.dip.sf.count)

\* C19, as the claim words it: with writes allowed the entries left are the
\* entries with a name that end inside di_size, less those that point to
\* the directory, fail verify_inum, point to a realtime or quota inode, to
\* a free inode or an unknown one with ino_discovery off, or have '/' or
\* NUL in the name.
C19_AsStated ==
    SfWritten =>
        SameSfEntries(Survivors, KeptOf({j \in Counted : InsideSize(j)}, 1))

\* the entries the loop gets to: all before the first one that has no name
\* or ends beyond di_size
Reached == {j \in Counted : \A k \in 1..j : InsideSize(k)}

\* C19: with writes allowed the entries left are the entries the loop gets
\* to, less those with a listed reason; the first entry without a name or
\* ending beyond di_size goes, and every entry after it with it.  With
\* ino_discovery on, the unknown inode numbers of the entries looked at
\* have gone to add_inode_uncertain; with it off, none has.
C19_RemovedIffListed ==
    SfWritten =>
        /\ SameSfEntries(Survivors, KeptOf(Reached, 1))
        /\ \A j \in Reached :
              /\ dctx.ino_discovery
              /\ dir0.dip.sf.ents[j].ino # dctx.ino
              /\ InoUnknown(dir0.dip.sf.ents[j].ino)
              => dir0.dip.sf.ents[j].ino \in dres.uncertain
        /\ dres.uncertain \subseteq
              {dir0.dip.sf.ents[j].ino : j \in 1..Len(dir0.dip.sf.ents)}
        /\ \A l \in dres.uncertain : InoUnknown(l) /\ dctx.ino_discovery

\* an unknown inode kept and listed as uncertain next to an entry removed
\* for pointing to the realtime bitmap inode
C19_Witness ==
    /\ SfWritten /\ dctx.ino_discovery
    /\ Len(dir0.dip.sf.ents) = 2 /\ Reached = {1, 2}
    /\ InoUnknown(dir0.dip.sf.ents[1].ino)
    /\ dir0.dip.sf.ents[2].ino = m_sb.sb_rbmino
    /\ dir.dip.sf.count = 1
    /\ dir.dip.sf.ents[1].ino = dir0.dip.sf.ents[1].ino
    /\ dres.uncertain = {dir0.dip.sf.ents[1].ino}

\* where the data walk of block b has to end: the leaf entries of a
\* single-block directory, the end of the block otherwise
DataEnd(b) ==
    IF dres.layout = "block" THEN BlkUnits - 1 - dir0.blocks[b].count
    ELSE BlkUnits

\* the data blocks that were read and whose walk returned nonzero
FailedDataBlocks ==
    {b \in DOMAIN dir0.blocks :
        /\ b < m_dir_geo.leafblk
        /\ da_read_buf(dir0.blocks, b) = "ok"
        /\ process_dir2_data(dir0.blocks[b], StartM(dir0.blocks),
                             DataEnd(b), dctx).rval # 0}

WrittenBlocks == {dres.writes[k] : k \in 1..Len(dres.writes)}

\* C20, as the claim words it: on the block, leaf and node paths a data
\* block whose walk returned nonzero is not handed to libxfs_writebuf and
\* holds what it held, whatever was done to the blocks before it.
C20_AsStated ==
    pc = "checked" /\ dres.layout \in {"block", "leaf", "node"} =>
        \A b \in FailedDataBlocks :
            b \notin WrittenBlocks /\ dir.blocks[b] = dir0.blocks[b]

----------------------------------------------------------------------------
(* Properties of the walk over the records (xlog_do_recovery_pass).        *)

\* the header block of record r (from 1) of the active log, as written
RecStart(r) == (tail_blk + (r - 1) * (RecDataBBs + 1)) % LogBBs

\* the data blocks of record r where the writer put them
RecData(r) ==
    [k \in 1..RecNumBBs(written, r) |-> disk[((RecStart(r) + k) % LogBBs) + 1]]

\* C21: the pass takes the records between tail and head once each and in
\* log order: the r-th record it processes is the r-th record written, read
\* from its header block and from the data blocks that follow it round the
\* physical end; a pass that ends without error has taken them all, and
\* with tail == head none.
C21_EachRecordOnceInOrder ==
    /\ Len(nrecs) <= NumRecords(written)
    /\ \A r \in 1..Len(nrecs) :
           /\ nrecs[r].hdr_blk = RecStart(r)
           /\ nrecs[r].dp = RecData(r)
    /\ pc = "done" /\ error = 0 =>
           /\ Len(nrecs) = NumRecords(written)
           /\ nops = Len(written)
    /\ tail_blk = head_blk => nrecs = <<>> /\ nops = 0

\* a pass over a wrapped log done, with a record whose data lies on both
\* sides of the physical end
C21_Witness ==
    /\ pc = "done" /\ error = 0
    /\ \E r \in 1..Len(nrecs) :
           /\ nrecs[r].hdr_blk + 1 < LogBBs
           /\ nrecs[r].hdr_blk + Len(nrecs[r].dp) >= LogBBs
    /\ \E r \in 1..Len(nrecs) : nrecs[r].hdr_blk < head_blk

\* a pass over an empty log done
C21_WitnessEmpty ==
    pc = "done" /\ tail_blk = head_blk /\ tail_blk > 0 /\ nrecs = <<>>

----------------------------------------------------------------------------
(* Properties of xlog_find_verify_cycle.                                   *)

\* the buffer sizes the allocation loop tries: nbblks halved until it is 0
RECURSIVE Halvings(_)
Halvings(n) == IF n = 0 THEN {} ELSE {n} \cup Halvings(n \div 2)

\* the blocks of [start_blk, start_blk + nbblks) that carry the cycle
BlocksWithCycle(start_blk, nbblks, cycle) ==
    {b \in start_blk..(start_blk + nbblks - 1) :
        GET_CYCLE(DiskBlock(disk, b)) = cycle}

ScanRanges ==
    {r \in [start_blk : 0..(Len(disk) - 1), nbblks : 1..Len(disk)] :
        r.start_blk + r.nbblks <= Len(disk)}

ScanCycles == {0, 1, 2}

\* C22 (as stated): for every buffer size, xlog_find_verify_cycle returns
\* the first block of the range that carries the cycle, and -1 when no
\* block of the range carries it.
C22_AsStated ==
    pc = "image" =>
        \A r \in ScanRanges, c \in ScanCycles :
            \A bufblks \in Halvings(r.nbblks) :
                VerifyCycleFrom(disk, r.start_blk, r.start_blk, r.nbblks,
                                c, bufblks)
                = IF BlocksWithCycle(r.start_blk, r.nbblks, c) = {} THEN -1
                  ELSE MinOf(BlocksWithCycle(r.start_blk, r.nbblks, c))

----------------------------------------------------------------------------
(* Properties of xlog_find_verify_log_record.                              *)

IsHeader(b) == DiskBlock(disk, b).w0 = XLOG_HEADER_MAGIC_NUM

\* the calls the ASSERT of line 159 allows, with every extra_bblks a
\* caller passes
VerifyRecordCalls ==
    {c \in [start_blk : 0..(Len(disk) - 1), last_blk : 1..Len(disk),
            extra_bblks : 0..MaxRecordBBs] : c.start_blk < c.last_blk}

VerifyRecordOf(c) ==
    xlog_find_verify_log_record(disk, c.start_blk, c.last_blk, c.extra_bblks)

\* the first header met going down from last_blk - 1 to start_blk
FirstHeaderBelow(c, i) ==
    /\ i \in c.start_blk..(c.last_blk - 1)
    /\ IsHeader(i)
    /\ \A k \in (i + 1)..(c.last_blk - 1) : ~IsHeader(k)

NoHeaderIn(c) == \A k \in c.start_blk..(c.last_blk - 1) : ~IsHeader(k)

\* C23: going down from last_blk - 1, the first header found, at i, moves
\* last_blk to i exactly when last_blk - i + extra_bblks differs from
\* BTOBB(h_len) + 1; without a header the result is EIO when start_blk > 0
\* and -1 when the scan went down to block 0, and last_blk is left alone.
C23_VerifyLogRecord ==
    pc = "zeroed" =>
    \A c \in VerifyRecordCalls :
        /\ \A i \in 0..(Len(disk) - 1) :
               FirstHeaderBelow(c, i) /\ DiskBlock(disk, i).uuid_ok =>
                   /\ VerifyRecordOf(c).error = 0
                   /\ VerifyRecordOf(c).last_blk =
                          IF c.last_blk - i + c.extra_bblks
                                 # BTOBB(DiskBlock(disk, i).h_len) + 1
                          THEN i ELSE c.last_blk
        /\ NoHeaderIn(c) =>
               /\ VerifyRecordOf(c).last_blk = c.last_blk
               /\ VerifyRecordOf(c).error = IF c.start_blk > 0 THEN EIO ELSE -1
        /\ VerifyRecordOf(c).error = -1 => c.start_blk = 0 /\ NoHeaderIn(c)

\* the search has run on an image where each case of the claim occurs:
\* last_blk moved back to a header, last_blk kept at the end of a whole
\* record, EIO and -1
C23_Witness ==
    /\ pc = "zeroed"
    /\ \E c \in VerifyRecordCalls :
           VerifyRecordOf(c).error = 0 /\ VerifyRecordOf(c).last_blk < c.last_blk
    /\ \E c \in VerifyRecordCalls :
           /\ VerifyRecordOf(c).error = 0
           /\ VerifyRecordOf(c).last_blk = c.last_blk
           /\ \E i \in 0..(Len(disk) - 1) : FirstHeaderBelow(c, i)
    /\ \E c \in VerifyRecordCalls : VerifyRecordOf(c).error = EIO
    /\ \E c \in VerifyRecordCalls : VerifyRecordOf(c).error = -1

----------------------------------------------------------------------------
(* Properties of xlog_find_cycle_start.                                    *)

CycleStartCalls ==
    {c \in [first_blk : 0..(Len(disk) - 1), last_blk : 0..(Len(disk) - 1),
            cycle : ScanCycles] : c.first_blk < c.last_blk}

CycleStartOf(c) == xlog_find_cycle_start(disk, c.first_blk, c.last_blk, c.cycle)

\* the blocks of (first_blk, last_blk] that carry the cycle
Carriers(c) ==
    {b \in (c.first_blk + 1)..c.last_blk :
        GET_CYCLE(DiskBlock(disk, b)) = c.cycle}

\* in (first_blk, last_blk] no block with the cycle lies before one without
Partitioned(c) ==
    \A a \in Carriers(c) : \A b \in (a + 1)..c.last_blk : b \in Carriers(c)

\* the ASSERT of lines 66-67, with mid_blk as the loop left it
CycleStartAssert(r) ==
    LET mid_blk == BLK_AVG(r.first_blk, r.last_blk)
    IN  \/ mid_blk = r.first_blk /\ mid_blk + 1 = r.last_blk
        \/ mid_blk = r.last_blk /\ mid_blk - 1 = r.first_blk

\* C24: for first_blk < last_blk the search ends with a range of length 1
\* inside the range given, and when the blocks with the cycle are the upper
\* part of (first_blk, last_blk] it ends on the lowest of them.
C24_CycleStart ==
    pc = "zeroed" =>
        \A c \in CycleStartCalls :
            /\ CycleStartOf(c).error = 0
            /\ CycleStartAssert(CycleStartOf(c))
            /\ CycleStartOf(c).last_blk = CycleStartOf(c).first_blk + 1
            /\ c.first_blk <= CycleStartOf(c).first_blk
            /\ CycleStartOf(c).last_blk <= c.last_blk
            /\ Partitioned(c) /\ Carriers(c) # {} =>
                   CycleStartOf(c).last_blk = MinOf(Carriers(c))

\* a search over a range of several blocks that ended strictly inside it,
\* on the lowest block with the cycle
C24_Witness ==
    /\ pc = "zeroed"
    /\ \E c \in CycleStartCalls :
           /\ c.last_blk - c.first_blk >= 4
           /\ Partitioned(c)
           /\ Carriers(c) # {}
           /\ CycleStartOf(c).last_blk = MinOf(Carriers(c))
           /\ CycleStartOf(c).last_blk < c.last_blk
           /\ CycleStartOf(c).first_blk > c.first_blk

----------------------------------------------------------------------------
(* Properties of the UNMOUNT operation.                                    *)

\* the operations with an in-flight tid that the switch takes as UNMOUNT
UnmountOps ==
    {k \in 1..Len(written) :
        /\ StartedBefore(k)
        /\ MaskedFlags(written[k].oh_flags) = {XLOG_UNMOUNT_TRANS}}

InTable(tid) == xlog_recover_find_tid(rhash[XLOG_RHASH(tid)], tid) # 0

\* the operations after k, among those consumed, of the tid of k and with
\* the masked flags f
LaterOps(k, f) ==
    {c \in (k + 1)..nops : /\ written[c].oh_tid = written[k].oh_tid
                           /\ MaskedFlags(written[c].oh_flags) = f}

HandedOverBy(c) == \E i \in 1..Len(delivered) : delivered[i].seq = c

\* C25 (as stated): once an UNMOUNT operation for an in-flight tid has been
\* consumed, no transaction was handed over by it and the tid is not in the
\* table any more.
C25_AsStated ==
    pc # "start" =>
        \A k \in UnmountOps :
            k <= nops =>
                /\ ~HandedOverBy(k)
                /\ ~InTable(written[k].oh_tid)

\* what the code does instead: an UNMOUNT operation for an in-flight tid
\* changes nothing: it hands nothing over and does not end the pass, the tid
\* stays in the table until a COMMIT of it, and that COMMIT hands the
\* transaction over.
UnmountKeepsTrans ==
    pc # "start" =>
        \A k \in UnmountOps :
            k <= nops =>
                /\ ~HandedOverBy(k)
                /\ LaterOps(k, {XLOG_COMMIT_TRANS}) = {} =>
                       InTable(written[k].oh_tid)
                /\ \A c \in LaterOps(k, {XLOG_COMMIT_TRANS}) : HandedOverBy(c)
                /\ pc = "done" /\ nops = k => error = 0 /\ k = Len(written)

\* between two records: the UNMOUNT operation is consumed and its tid is
\* still in the table
UnmountKeptBetweenRecords ==
    /\ pc \notin {"start", "done", "undefined", "bread_err"}
    /\ \E k \in UnmountOps :
           /\ k <= nops /\ nops < Len(written)
           /\ InTable(written[k].oh_tid)

\* the pass is done and the COMMIT that followed the UNMOUNT operation
\* handed the transaction over
UnmountThenCommitHandedOver ==
    /\ pc = "done" /\ error = 0
    /\ \E k \in UnmountOps :
           \E c \in LaterOps(k, {XLOG_COMMIT_TRANS}) : HandedOverBy(c)

----------------------------------------------------------------------------
(* Properties of payloads split across operations.                         *)

\* the operations that carry the payloads of the transaction committed by
\* operation c
PayloadOps(c) ==
    SelectSeq(SubSeq(written, StartOf(c) + 1, c - 1),
              LAMBDA o : /\ o.oh_tid = written[c].oh_tid
                         /\ MaskedFlags(o.oh_flags) \in
                                {{}, {XLOG_CONTINUE_TRANS}, {XLOG_WAS_CONT_TRANS}})

\* the payloads as the client logged them: a part flagged WAS_CONT belongs
\* to the payload that the part before it began
RECURSIVE Rejoin(_, _)
Rejoin(ops, out) ==
    IF ops = <<>> THEN out
    ELSE IF XLOG_WAS_CONT_TRANS \in Head(ops).oh_flags /\ out # <<>>
    THEN Rejoin(Tail(ops), [out EXCEPT ![Len(out)] = @ \o Head(ops).data])
    ELSE IF Head(ops).data # <<>> \/ XLOG_CONTINUE_TRANS \in Head(ops).oh_flags
    THEN Rejoin(Tail(ops), Append(out, Head(ops).data))
    ELSE Rejoin(Tail(ops), out)

\* some payload is split, and every part flagged WAS_CONT follows a part
\* flagged CONTINUE and the other way round
WellSplit(ops) ==
    /\ \E k \in 1..Len(ops) : XLOG_WAS_CONT_TRANS \in ops[k].oh_flags
    /\ \A k \in 1..Len(ops) :
           /\ XLOG_WAS_CONT_TRANS \in ops[k].oh_flags =>
                  k > 1 /\ XLOG_CONTINUE_TRANS \in ops[k - 1].oh_flags
           /\ XLOG_CONTINUE_TRANS \in ops[k].oh_flags =>
                  k < Len(ops) /\ XLOG_WAS_CONT_TRANS \in ops[k + 1].oh_flags

\* the transaction holds the payloads rs: the header, then the regions item
\* by item
Holds(trans, rs) ==
    /\ rs # <<>>
    /\ trans.r_theader = rs[1]
    /\ ItemRegions(trans) = GroupRegions(Tail(rs))

\* C26 (as stated): a transaction with payloads split into a CONTINUE part
\* and WAS_CONT parts is handed over with every payload equal to its parts
\* joined in order, and with the regions and items it would have had unsplit.
C26_AsStated ==
    \A i \in 1..Len(delivered) :
        WellSplit(PayloadOps(delivered[i].seq)) =>
            Holds(delivered[i].trans, Rejoin(PayloadOps(delivered[i].seq), <<>>))

\* no part of the transaction is empty
PartsHaveData(ops) == \A k \in 1..Len(ops) : ops[k].data # <<>>

\* what holds: the same for the transactions all of whose parts carry data
SplitWithDataRejoined ==
    \A i \in 1..Len(delivered) :
        /\ WellSplit(PayloadOps(delivered[i].seq))
        /\ PartsHaveData(PayloadOps(delivered[i].seq))
        => Holds(delivered[i].trans, Rejoin(PayloadOps(delivered[i].seq), <<>>))

----------------------------------------------------------------------------
(* Properties of the items of a transaction.                               *)

\* the transactions in the table and those handed over
AllTrans ==
    UNION { {rhash[h][i] : i \in 1..Len(rhash[h])} : h \in DOMAIN rhash }
    \cup {delivered[i].trans : i \in 1..Len(delivered)}

\* no item holds more regions than its first region declared, and every
\* item but the last holds exactly as many
ItemsWithinTotal(trans) ==
    \A k \in 1..Len(trans.r_itemq) :
        /\ trans.r_itemq[k].ri_cnt <= trans.r_itemq[k].ri_total
        /\ trans.r_itemq[k].ri_cnt = Len(trans.r_itemq[k].ri_buf)
        /\ k < Len(trans.r_itemq) =>
               /\ trans.r_itemq[k].ri_total > 0
               /\ trans.r_itemq[k].ri_cnt = trans.r_itemq[k].ri_total

\* C27 (as stated): whatever regions are added and whatever total the first
\* region of an item declares, the count of an item never passes its total
\* and an item is followed by another only when it is full.
C27_AsStated == pc # "start" => \A trans \in AllTrans : ItemsWithinTotal(trans)

\* no region of the log declares a total of 0
NoZeroTotal ==
    \A k \in 1..Len(written) :
        written[k].data = <<>> \/ ilf_size(written[k].data) # 0

\* what holds: the same on the logs whose regions declare totals above 0
ItemsWithinPositiveTotal == NoZeroTotal => C27_AsStated

----------------------------------------------------------------------------
(* Properties of the shortform walk at an entry it cannot parse.           *)

\* the entries the loop may look at: bounded by the count it settled on
\* (lines 783-785) and by where the entry starts
Examined ==
    {j \in 1..Min(SfStart(dir0.dip).num_entries, Len(dir0.dip.sf.ents)) :
        SfEndOf(dir0.dip.sf, j - 1) < dir0.dip.di_size}

\* the examined entries without a name or ending beyond di_size
BadNamelen == {j \in Examined : ~InsideSize(j)}

\* C28: with writes allowed, when the walk of process_sf_dir2 meets an entry
\* without a name or ending beyond di_size, the entries left are those
\* before it that no filter removed, the stored count is their number,
\* di_size is where the last of them ends, and that is not beyond the place
\* where the bad entry began.
C28_StopsAtBadEntry ==
    SfWritten /\ BadNamelen # {} =>
        /\ SameSfEntries(Survivors, KeptOf(1..(MinOf(BadNamelen) - 1), 1))
        /\ dir.dip.sf.count = Len(KeptOf(1..(MinOf(BadNamelen) - 1), 1))
        /\ dir.dip.di_size = SfEndOf(dir.dip.sf, dir.dip.sf.count)
        /\ dir.dip.di_size <= SfEndOf(dir0.dip.sf, MinOf(BadNamelen) - 1)

\* a fork of two counted entries: the first is kept, the second ends beyond
\* di_size and a count of 2 was stored
C28_Witness ==
    /\ SfWritten
    /\ dir0.dip.sf.count = 2
    /\ BadNamelen = {2}
    /\ dir0.dip.sf.ents[2].namelen > 0
    /\ dir.dip.sf.count = 1
    /\ dir.dip.di_size < dir0.dip.di_size

\* the same with a first entry that a filter removed and a second entry
\* without a name
C28_WitnessFiltered ==
    /\ SfWritten
    /\ BadNamelen = {2}
    /\ dir0.dip.sf.ents[2].namelen = 0
    /\ ListedReason(dir0.dip.sf.ents[1], dctx.ino, dctx.ino_discovery)
    /\ dir.dip.sf.count = 0

----------------------------------------------------------------------------
(* Properties of the parent of the root directory and of the closing       *)
(* assertion of process_dir2.                                              *)

RootSfWritten == SfWritten /\ dctx.ino = m_sb.sb_rootino

\* C29 (as stated): after process_sf_dir2 on the root directory with writes
\* allowed, the stored parent and the returned parent are the root inode
\* number, whatever the stored parent was.
C29_AsStated ==
    RootSfWritten =>
        /\ dir.dip.sf.parent = m_sb.sb_rootino
        /\ dres.parent = m_sb.sb_rootino

\* what holds: the same when the stored parent passes verify_inum, and
\* otherwise the stored parent is cleared and NULLFSINO returned
RootParentByCase ==
    RootSfWritten =>
        IF verify_inum(dir0.dip.sf.parent)
        THEN dir.dip.sf.parent = 0 /\ dres.parent = NULLFSINO
        ELSE dir.dip.sf.parent = m_sb.sb_rootino /\ dres.parent = m_sb.sb_rootino

\* process_dir2 took one of the four layout paths and returned
WentThroughLayout ==
    /\ pc = "checked"
    /\ dres.layout \in {"shortform", "block", "leaf", "node"}
    /\ ~dres.crashed

\* C30 (as stated): on every such return the ASSERT of lines 2000-2002
\* holds, with and without no_modify.
C30_AsStated ==
    WentThroughLayout =>
        /\ 2000 \notin dres.asserts
        /\ ClosingAssert(dctx.ino, dres.parent, dres.need_root_dotdot)

----------------------------------------------------------------------------
(* Properties of the walk over a data block.                               *)

\* the data blocks of a directory on the block, leaf or node path
DataBlockNos(d) ==
    IF DirLayout(d) = "block" THEN {m_dir_geo.datablk}
    ELSE IF DirLayout(d) \in {"leaf", "node"}
    THEN {b \in DOMAIN d.blocks : b < m_dir_geo.leafblk}
    ELSE {}

\* the first walk gets to the end of the data of this buffer
Walkable(blk, endptr) ==
    /\ endptr \in DataHdrUnits..BlkUnits
    /\ DataWalk(blk, endptr, DataHdrUnits, DataWalkStart(blk.bf)).ptr = endptr

\* the data blocks of dir0 that process_dir2_data walked to the end
WalkedBlocks ==
    {b \in DataBlockNos(dir0) :
        /\ da_read_buf(dir0.blocks, b) = "ok"
        /\ Walkable(dir0.blocks[b], DataEnd(b))}

\* the records of a buffer as a reader steps through them
RECURSIVE RecordsOf(_, _, _)
RecordsOf(blk, endptr, ptr) ==
    IF ptr >= endptr THEN <<>>
    ELSE LET free == UnitAt(blk, ptr).freetag
             size == IF free THEN UnitAt(blk, ptr).length
                     ELSE IF ptr + 1 >= endptr THEN 1
                     ELSE EntUnits(UnitAt(blk, ptr + 1).namelen)
         IN  IF size < 1 \/ ptr + size > endptr
             THEN <<[offset |-> ptr, size |-> endptr - ptr, free |-> free,
                     tag |-> -1]>>
             ELSE <<[offset |-> ptr, size |-> size, free |-> free,
                     tag |-> UnitAt(blk, ptr + size - 1).tag]>>
                      \o RecordsOf(blk, endptr, ptr + size)

EntryStarts(blk, endptr) ==
    {r.offset : r \in {RecordsOf(blk, endptr, DataHdrUnits)[i] :
                         i \in 1..Len(RecordsOf(blk, endptr, DataHdrUnits))}
                \ {r \in {RecordsOf(blk, endptr, DataHdrUnits)[i] :
                         i \in 1..Len(RecordsOf(blk, endptr, DataHdrUnits))} :
                     r.free}}

IsDots(dep) ==
    \/ dep.namelen = 1 /\ dep.name[1] = "."
    \/ dep.namelen = 2 /\ dep.name[1] = "." /\ dep.name[2] = "."

\* what one unit of a buffer may have become
UnitFrame(old, new, oldnext, starts, off) ==
    /\ new.freetag = old.freetag
    /\ new.length = old.length
    /\ new.tag = old.tag
    /\ new.namelen = old.namelen
           \/ (off - 1 \in starts /\ old.namelen = 0 /\ new.namelen = 1)
    /\ new.inumber = old.inumber
           \/ (off \in starts /\ IsDots(oldnext) /\ new.inumber = dctx.ino)
    /\ Tail(new.name) = Tail(old.name)
    /\ new.name[1] = old.name[1]
           \/ (off - 1 \in starts /\ new.name[1] = "/")

BlockFrame(old, new, endptr) ==
    /\ [new EXCEPT !.u = old.u, !.bf = old.bf] = old
    /\ Len(new.u) = Len(old.u)
    /\ RecordsOf(new, endptr, DataHdrUnits) = RecordsOf(old, endptr, DataHdrUnits)
    /\ \A j \in 1..(Len(old.u) - 1) :
          UnitFrame(old.u[j], new.u[j], old.u[j + 1],
                    EntryStarts(old, endptr), j + DataHdrUnits - 1)

\* C31: process_dir2_data leaves the records of a data block where they
\* are - the offsets, sizes, kinds and tags of the records are the same
\* before and after - and changes nothing in the buffer but the first name
\* byte of an entry (to '/'), the inode number of a '.' or '..' entry (to
\* the directory's), a zero namelen (to 1) and the bestfree table; with
\* no_modify, and in a block the first walk gave up on, it changes nothing.
C31_RecordsStay ==
    pc = "checked" /\ ~dres.crashed =>
        \A b \in DataBlockNos(dir0) :
            IF b \in WalkedBlocks /\ ~dctx.no_modify
            THEN BlockFrame(dir0.blocks[b], dir.blocks[b], DataEnd(b))
            ELSE dir.blocks[b] = dir0.blocks[b]

\* a walked block in which a zero namelen became 1, an entry was marked and
\* the inode number of '.' was set
C31_Witness ==
    /\ pc = "checked"
    /\ ~dctx.no_modify
    /\ \E b \in WalkedBlocks :
          /\ \E j \in DOMAIN dir.blocks[b].u :
                /\ dir0.blocks[b].u[j].namelen = 0
                /\ dir.blocks[b].u[j].namelen = 1
                /\ dir.blocks[b].u[j].name[1] = "/"
          /\ dir.blocks[b].u[1].inumber # dir0.blocks[b].u[1].inumber

----------------------------------------------------------------------------
(* Properties of the '.' and '..' entries of the data blocks.              *)

\* the entries of the walked blocks of a directory, as <<block, offset>>
\* in the order the walk meets them
WalkedEntries(d) ==
    {<<b, off>> : b \in WalkedBlocks, off \in DataHdrUnits..BlkUnits} \cap
    UNION {{<<b, off>> : off \in EntryStarts(d.blocks[b], DataEnd(b))} :
              b \in WalkedBlocks}

EntIno(d, e) == UnitAt(d.blocks[e[1]], e[2]).inumber
EntName(d, e) == UnitAt(d.blocks[e[1]], e[2] + 1)

NamedDot(d, e) ==
    EntName(d, e).namelen = 1 /\ EntName(d, e).name[1] = "."

NamedDotDot(d, e) ==
    /\ EntName(d, e).namelen = 2
    /\ EntName(d, e).name[1] = "." /\ EntName(d, e).name[2] = "."

Marked(d, e) == EntName(d, e).name[1] = "/"

EarlierEntry(e, f) == e[1] < f[1] \/ (e[1] = f[1] /\ e[2] < f[2])

WroteBlocks ==
    /\ pc = "checked"
    /\ dres.layout \in {"block", "leaf", "node"}
    /\ ~dres.crashed
    /\ ~dctx.no_modify

\* C32: after process_dir2 with writes allowed on a block, leaf or node
\* directory, the walked data blocks hold at most one entry still named
\* '.'; it is the first '.' the walk met and its inode number is the
\* directory's; every later '.' is marked with '/'.
C32_OneDot ==
    WroteBlocks =>
        LET was == {e \in WalkedEntries(dir0) : NamedDot(dir0, e)}
            is  == {e \in WalkedEntries(dir) : NamedDot(dir, e)}
        IN  /\ Cardinality(is) <= 1
            /\ \A e \in is : EntIno(dir, e) = dctx.ino
            /\ \A e \in was :
                  IF \E f \in was : EarlierEntry(f, e)
                  THEN Marked(dir, e)
                  ELSE e \in is
            /\ is \subseteq was
            /\ dres.dot = IF was = {} THEN 0 ELSE 1

\* two walked blocks with a '.' each, the first one pointing elsewhere
C32_Witness ==
    /\ WroteBlocks
    /\ \E e, f \in WalkedEntries(dir0) :
          /\ e[1] < f[1]
          /\ NamedDot(dir0, e) /\ NamedDot(dir0, f)
          /\ EntIno(dir0, e) # dctx.ino
          /\ EntIno(dir, e) = dctx.ino
          /\ Marked(dir, f)

\* the '..' entries of the walked blocks before and after
DotDotsWere == {e \in WalkedEntries(dir0) : NamedDotDot(dir0, e)}
DotDotsLeft == {e \in WalkedEntries(dir) : NamedDotDot(dir, e)}

\* the entries of every data block that was read, walked to the end or not
ReadEntries(d) ==
    UNION {{<<b, off>> : off \in EntryStarts(d.blocks[b], DataEnd(b))} :
              b \in {x \in DataBlockNos(dir0) :
                        da_read_buf(dir0.blocks, x) = "ok"}}

\* C33 (as stated): after process_dir2 with writes allowed on a block, leaf
\* or node directory at most one entry of the directory is still named
\* '..'; in the root it points to the root, elsewhere not to the directory,
\* and the returned parent is its inode number, NULLFSINO when there is
\* none.
C33_AsStated ==
    WroteBlocks =>
        LET left == {e \in ReadEntries(dir) : NamedDotDot(dir, e)}
        IN  /\ Cardinality(left) <= 1
            /\ \A e \in left :
                  /\ IF dctx.ino = m_sb.sb_rootino
                     THEN EntIno(dir, e) = m_sb.sb_rootino
                     ELSE EntIno(dir, e) # dctx.ino
                  /\ dres.parent = EntIno(dir, e)
            /\ left = {} => dres.parent = NULLFSINO

\* C33: the same over the data blocks the walk got to the end of: at most
\* one of their entries is still named '..', namely the first '..' met
\* unless it pointed to a non-root directory itself; every other '..' is
\* marked with '/'.
C33_OneDotDot ==
    WroteBlocks =>
        /\ Cardinality(DotDotsLeft) <= 1
        /\ DotDotsLeft \subseteq DotDotsWere
        /\ \A e \in DotDotsWere :
              IF \/ \E f \in DotDotsWere : EarlierEntry(f, e)
                 \/ EntIno(dir0, e) = dctx.ino /\ dctx.ino # m_sb.sb_rootino
              THEN Marked(dir, e)
              ELSE e \in DotDotsLeft
        /\ \A e \in DotDotsLeft :
              /\ IF dctx.ino = m_sb.sb_rootino
                 THEN EntIno(dir, e) = m_sb.sb_rootino
                 ELSE EntIno(dir, e) # dctx.ino
              /\ dres.parent = EntIno(dir, e)
        /\ DotDotsLeft = {} => dres.parent = NULLFSINO

\* two walked blocks with a '..' each: the first is kept and names the
\* parent returned, the second is marked
C33_Witness ==
    /\ WroteBlocks
    /\ dctx.ino # m_sb.sb_rootino
    /\ \E e, f \in DotDotsWere :
          /\ e[1] < f[1]
          /\ DotDotsLeft = {e}
          /\ dres.parent = EntIno(dir, e)
          /\ Marked(dir, f)

\* the first '..' of a non-root directory points to the directory: it is
\* marked and NULLFSINO returned
C33_WitnessSelf ==
    /\ WroteBlocks
    /\ dctx.ino # m_sb.sb_rootino
    /\ DotDotsWere # {}
    /\ DotDotsLeft = {}
    /\ dres.parent = NULLFSINO

\* the '..' of the root pointed elsewhere and was set to the root
C33_WitnessRoot ==
    /\ WroteBlocks
    /\ dctx.ino = m_sb.sb_rootino
    /\ \E e \in DotDotsLeft :
          /\ EntIno(dir0, e) # m_sb.sb_rootino
          /\ EntIno(dir, e) = m_sb.sb_rootino
          /\ dres.parent = m_sb.sb_rootino

----------------------------------------------------------------------------
(* Properties of the bestfree check of the data walk.                      *)

IsFreeRecord(r) == r.free

\* the unused regions of a buffer, in order
FreeRegions(blk, endptr) ==
    LET frees == SelectSeq(RecordsOf(blk, endptr, DataHdrUnits), IsFreeRecord)
    IN  [k \in 1..Len(frees) |->
            [offset |-> frees[k].offset, length |-> frees[k].size]]

RegionsAt(blk, endptr, off) ==
    {k \in 1..Len(FreeRegions(blk, endptr)) :
        FreeRegions(blk, endptr)[k].offset = off}

\* the four faults of a bestfree table the claim lists
LengthsRise(bf) ==
    bf[1].length < bf[2].length \/ bf[2].length < bf[3].length

LongRegionUnlisted(blk, endptr) ==
    \E k \in 1..Len(FreeRegions(blk, endptr)) :
        /\ FreeRegions(blk, endptr)[k].length > blk.bf[3].length
        /\ \A i \in 1..3 : blk.bf[i].offset # FreeRegions(blk, endptr)[k].offset

SlotMatchedTwice(blk, endptr) ==
    \E i \in 1..3 : Cardinality(RegionsAt(blk, endptr, blk.bf[i].offset)) > 1

SlotUnmatched(blk, endptr) ==
    \E i \in 1..3 :
        /\ blk.bf[i].length # 0
        /\ RegionsAt(blk, endptr, blk.bf[i].offset) = {}

TableFault(blk, endptr) ==
    \/ LengthsRise(blk.bf)
    \/ LongRegionUnlisted(blk, endptr)
    \/ SlotMatchedTwice(blk, endptr)
    \/ SlotUnmatched(blk, endptr)

\* the test of line 1501 on what the first walk found
FlagsTable(w) == w.freeseen # 1..3 \/ w.badbest

\* the outcome of the entry validation of a walk
EntryOutcome(r) ==
    [u |-> r.blk.u, dot |-> r.dot, dotdot |-> r.dotdot, parent |-> r.parent,
     uncertain |-> r.uncertain, rval |-> r.rval]

FirstDataBlock == MinOf(DataBlockNos(dir0))

\* C34: a walked data block whose bestfree table has rising lengths, lacks
\* an unused region longer than bestfree[2].length, has a slot matched twice
\* or a nonzero slot matched by no region is flagged; with writes allowed
\* its table is then the one libxfs_dir2_data_freescan builds and the block
\* is written; and the entries, *dot, *dotdot, *parent and the return value
\* come out as they do for the same block with a sound table.
C34_BadTableFlagged ==
    pc = "checked" /\ ~dres.crashed =>
        \A b \in WalkedBlocks :
            TableFault(dir0.blocks[b], DataEnd(b)) =>
                /\ FlagsTable(DataWalk(dir0.blocks[b], DataEnd(b), DataHdrUnits,
                                       DataWalkStart(dir0.blocks[b].bf)))
                /\ ~dctx.no_modify =>
                      /\ dir.blocks[b].bf = xfs_dir2_data_freescan(
                                FreeRegions(dir0.blocks[b], DataEnd(b)))
                      /\ b \in WrittenBlocks
                /\ dctx.no_modify => dir.blocks[b] = dir0.blocks[b]
                /\ b = FirstDataBlock =>
                      /\ dir.blocks[b].u =
                            process_dir2_data(
                                [dir0.blocks[b] EXCEPT !.bf =
                                    xfs_dir2_data_freescan(
                                        FreeRegions(dir0.blocks[b], DataEnd(b)))],
                                StartM(dir0.blocks), DataEnd(b), dctx).blk.u
                      /\ EntryOutcome(process_dir2_data(
                                dir0.blocks[b], StartM(dir0.blocks),
                                DataEnd(b), dctx))
                           = EntryOutcome(process_dir2_data(
                                [dir0.blocks[b] EXCEPT !.bf =
                                    xfs_dir2_data_freescan(
                                        FreeRegions(dir0.blocks[b], DataEnd(b)))],
                                StartM(dir0.blocks), DataEnd(b), dctx))

\* a table whose only fault is a nonzero slot no region matches, repaired,
\* in a block one of whose entries was marked in the same walk
C34_Witness ==
    /\ pc = "checked" /\ ~dctx.no_modify
    /\ \E b \in WalkedBlocks :
          /\ SlotUnmatched(dir0.blocks[b], DataEnd(b))
          /\ ~LengthsRise(dir0.blocks[b].bf)
          /\ ~LongRegionUnlisted(dir0.blocks[b], DataEnd(b))
          /\ dir.blocks[b].bf # dir0.blocks[b].bf
          /\ dir.blocks[b].bf = xfs_dir2_data_freescan(
                                   FreeRegions(dir0.blocks[b], DataEnd(b)))
          /\ b \in WrittenBlocks
          /\ \E j \in DOMAIN dir.blocks[b].u :
                /\ dir.blocks[b].u[j].name[1] = "/"
                /\ dir0.blocks[b].u[j].name[1] # "/"

\* a table whose only fault is that its lengths rise, repaired
C34_WitnessOrder ==
    /\ pc = "checked" /\ ~dctx.no_modify
    /\ \E b \in WalkedBlocks :
          /\ LengthsRise(dir0.blocks[b].bf)
          /\ ~LongRegionUnlisted(dir0.blocks[b], DataEnd(b))
          /\ ~SlotUnmatched(dir0.blocks[b], DataEnd(b))
          /\ dir.blocks[b].bf # dir0.blocks[b].bf
          /\ b \in WrittenBlocks

\* an unused region longer than bestfree[2].length that the table does not
\* list, under a table with no other fault
C34_WitnessUnlisted ==
    /\ pc = "checked" /\ ~dctx.no_modify
    /\ \E b \in WalkedBlocks :
          /\ LongRegionUnlisted(dir0.blocks[b], DataEnd(b))
          /\ ~LengthsRise(dir0.blocks[b].bf)
          /\ ~SlotUnmatched(dir0.blocks[b], DataEnd(b))
          /\ dir.blocks[b].bf # dir0.blocks[b].bf
          /\ b \in WrittenBlocks

----------------------------------------------------------------------------
(* Properties of the name check of the data walk.                          *)

\* the name of the entry holds '/' or NUL
IllegalName(d, e) ==
    \E i \in 1..EntName(d, e).namelen : EntName(d, e).name[i] \in {"/", "NUL"}

\* C35 (as stated): in the data walk with writes allowed an entry whose
\* name holds '/' or NUL is marked for removal, whatever ino_discovery is.
C35_AsStated ==
    WroteBlocks =>
        \A e \in WalkedEntries(dir0) : IllegalName(dir0, e) => Marked(dir, e)

\* C35: with ino_discovery set such an entry is marked; with ino_discovery
\* clear it is marked only when its name began with '/' already, when the
\* inode filter rejects its inode number, or when it points to the
\* directory itself, and is left as it was otherwise.
C35_IllegalNameInDiscovery ==
    WroteBlocks =>
        \A e \in WalkedEntries(dir0) :
            IllegalName(dir0, e) =>
                IF dctx.ino_discovery THEN Marked(dir, e)
                ELSE /\ Marked(dir, e) <=>
                           \/ Marked(dir0, e)
                           \/ InumReason(EntIno(dir0, e), FALSE) # ""
                           \/ EntIno(dir0, e) = dctx.ino
                     /\ ~Marked(dir, e) => EntName(dir, e) = EntName(dir0, e)

\* an entry "a/" and an entry "a\0" with an inode number the filter
\* accepts, each marked in discovery
C35_Witness ==
    /\ WroteBlocks /\ dctx.ino_discovery
    /\ \E e \in WalkedEntries(dir0) :
          /\ EntName(dir0, e).name = <<"a", "/">>
          /\ InumReason(EntIno(dir0, e), TRUE) = ""
          /\ EntIno(dir0, e) # dctx.ino
          /\ Marked(dir, e)
          /\ dir0.blocks[e[1]].bf = dir.blocks[e[1]].bf

C35_WitnessNul ==
    /\ WroteBlocks /\ dctx.ino_discovery
    /\ \E e \in WalkedEntries(dir0) :
          /\ EntName(dir0, e).name = <<"a", "NUL">>
          /\ EntIno(dir0, e) # dctx.ino
          /\ Marked(dir, e)

\* the same entry outside discovery, left alone
C35_WitnessKept ==
    /\ WroteBlocks /\ ~dctx.ino_discovery
    /\ \E e \in WalkedEntries(dir0) :
          /\ EntName(dir0, e).name = <<"a", "/">>
          /\ EntName(dir, e) = EntName(dir0, e)

----------------------------------------------------------------------------
(* Properties of the cursor of the node walk.                              *)

\* C36 (as stated): when release_dir2_cursor runs on the paths of
\* process_node_dir2 and process_leaf_level_dir2 that found no error, no
\* level of the cursor holds a buffer, so the ASSERT of line 290 holds.
C36_AsStated ==
    pc = "checked" /\ dres.layout = "node" => 290 \notin dres.asserts

\* the ASSERT of line 290 fails only after traverse_int_dir2block met a
\* LEAFN block below a root of level 2, and the directory then passes
ReleaseAssertOnlyAfterLeafnChild ==
    pc = "checked" /\ dres.layout = "node" /\ 290 \in dres.asserts =>
        /\ dir0.blocks[m_dir_geo.leafblk].magic = "NODE"
        /\ dir0.blocks[m_dir_geo.leafblk].level = 2
        /\ dir0.blocks[BtreeAt(dir0.blocks[m_dir_geo.leafblk], 0).before].magic
              = "LEAFN"
        /\ dres.res = 0
        /\ ~dres.badlist

----------------------------------------------------------------------------
(* Properties of the block number xlog_find_zeroed passes back.            *)

\* C37 (as stated): whenever xlog_find_zeroed returns -1 it has stored to
\* *blk_no in that call, so the head xlog_find_head returns is never read
\* from a variable nothing was stored to.
C37_AsStated ==
    /\ pc = "zeroed" => (zres.error = -1 => zres.assigned)
    /\ pc = "head" => (hres.error = 0 => hres.assigned)

\* a return of -1 without a store happens on the partially zeroed path
\* alone, and xlog_find_head then returns 0 with a head nothing stored
UnassignedOnlyWhenPartlyZeroed ==
    /\ pc = "zeroed" /\ zres.error = -1 /\ ~zres.assigned =>
          /\ GET_CYCLE(DiskBlock(disk, 0)) = 1
          /\ GET_CYCLE(DiskBlock(disk, Len(disk) - 1)) = 0
          /\ FindFirstZeroed(disk).error = -1
    /\ pc = "head" /\ hres.error = 0 /\ ~hres.assigned =>
          xlog_find_zeroed(disk).error = -1

----------------------------------------------------------------------------
(* Properties of the cursor levels path verification reads.                *)

\* C38 (as stated): during the leaf-level walk of a node directory
\* verify_dir2_path and verify_final_dir2_path read only the cursor levels
\* from 1 to cursor.active, each holding its buffer: no walk reads the
\* buffer of a level that holds none.
C38_AsStated ==
    pc = "checked" /\ dres.layout = "node" => ~dres.crashed

\* the blocks of the image one level below the root
BelowRoot(d) ==
    {b \in DOMAIN d.blocks :
        /\ b > m_dir_geo.leafblk
        /\ d.blocks[b].level = d.blocks[m_dir_geo.leafblk].level - 1}

\* a level without a buffer is read only when the root has fewer entries
\* than there are blocks below it: the walk then runs off the end of the
\* root and goes one level up
NullLevelOnlyPastRootEntries ==
    pc = "checked" /\ dres.layout = "node" /\ dres.crashed =>
        /\ dir0.blocks[m_dir_geo.leafblk].magic = "NODE"
        /\ dir0.blocks[m_dir_geo.leafblk].count < Cardinality(BelowRoot(dir0))

----------------------------------------------------------------------------
(* Properties of process_node_dir2 on a directory whose index is sound.    *)

\* the blocks of the index: the root and what lies above it in the file
IndexBlocks(d) == {b \in DOMAIN d.blocks : b >= m_dir_geo.leafblk}

\* the greatest hash value of an index block, which its last entry holds
GreatestHash(blk) ==
    IF blk.magic = "LEAFN" /\ blk.count \in DOMAIN blk.ents
    THEN blk.ents[blk.count].hashval
    ELSE IF blk.magic = "NODE" /\ blk.count \in DOMAIN blk.btree
    THEN blk.btree[blk.count].hashval
    ELSE -1

\* the children of an interior block, left to right
ChildAt(d, n, j) == d.blocks[n].btree[j].before

\* a leaf whose entries are sorted by hash and whose stale count is right
SoundLeaf(leaf) ==
    /\ leaf.count >= 1 /\ leaf.count <= Len(leaf.ents)
    /\ \A j \in 1..(leaf.count - 1) :
          leaf.ents[j].hashval <= leaf.ents[j + 1].hashval
    /\ leaf.stale = Cardinality({j \in 1..leaf.count :
                        leaf.ents[j].address = XFS_DIR2_NULL_DATAPTR})

\* an interior block: its count, its children one level down, each entry
\* holding the greatest hash of its child, and the sibling links of the
\* children, also across to the first child of the block to the right
SoundNode(d, n) ==
    LET node == d.blocks[n]
    IN  /\ node.count >= 1 /\ node.count <= m_dir_geo.node_ents
        /\ node.count <= Len(node.btree)
        /\ node.level >= 1 /\ node.level < XFS_DA_NODE_MAXDEPTH
        /\ \A j \in 1..node.count :
              /\ ChildAt(d, n, j) \in IndexBlocks(d) \ {m_dir_geo.leafblk}
              /\ d.blocks[ChildAt(d, n, j)].level = node.level - 1
              /\ d.blocks[ChildAt(d, n, j)].magic =
                     (IF node.level = 1 THEN "LEAFN" ELSE "NODE")
              /\ d.blocks[ChildAt(d, n, j)].count >= 1
              /\ node.btree[j].hashval =
                     GreatestHash(d.blocks[ChildAt(d, n, j)])
        /\ \A j \in 1..(node.count - 1) :
              /\ node.btree[j].hashval <= node.btree[j + 1].hashval
              /\ d.blocks[ChildAt(d, n, j)].forw = ChildAt(d, n, j + 1)
              /\ d.blocks[ChildAt(d, n, j + 1)].back = ChildAt(d, n, j)
        /\ IF node.forw = 0
           THEN d.blocks[ChildAt(d, n, node.count)].forw = 0
           ELSE /\ node.forw \in IndexBlocks(d)
                /\ d.blocks[node.forw].magic = "NODE"
                /\ d.blocks[node.forw].back = n
                /\ d.blocks[node.forw].level = node.level
                /\ d.blocks[node.forw].count \in DOMAIN d.blocks[node.forw].btree
                /\ ChildAt(d, node.forw, 1) \in IndexBlocks(d)
                /\ d.blocks[ChildAt(d, n, node.count)].forw =
                       ChildAt(d, node.forw, 1)
                /\ d.blocks[ChildAt(d, node.forw, 1)].back =
                       ChildAt(d, n, node.count)
        /\ node.back = 0 => d.blocks[ChildAt(d, n, 1)].back = 0

\* the index of the directory is consistent
ConsistentIndex(d) ==
    LET root == m_dir_geo.leafblk
    IN  /\ root \in DOMAIN d.blocks
        /\ d.blocks[root].magic = "NODE"
        /\ d.blocks[root].forw = 0 /\ d.blocks[root].back = 0
        /\ \A b \in IndexBlocks(d) :
              /\ d.blocks[b].b_error = 0
              /\ d.blocks[b].magic \in {"NODE", "LEAFN"}
              /\ d.blocks[b].magic = "NODE" => SoundNode(d, b)
              /\ d.blocks[b].magic = "LEAFN" => SoundLeaf(d.blocks[b])
              /\ b # root =>
                    \E n \in IndexBlocks(d) :
                        /\ d.blocks[n].magic = "NODE"
                        /\ \E j \in DOMAIN d.blocks[n].btree :
                              j <= d.blocks[n].count /\ ChildAt(d, n, j) = b

\* the call of process_node_dir2 that took A to N returned 0 and changed
\* no block and wrote none
NodeCheckPassed(A, N) ==
    /\ ~N.crashed /\ N.rval = 0
    /\ N.blocks = A.blocks /\ N.writes = A.writes

\* C39 (as stated): a node directory whose index is consistent passes
\* process_node_dir2, which returns 0, changes nothing and does not put the
\* inode on the bad-directory list, also when the rightmost interior block
\* of a level holds a single entry.
C39_AsStated ==
    NodeCheckCalled /\ ConsistentIndex(dir0) =>
        /\ NodeCheckPassed(AfterDataBlocks,
                           process_node_dir2(AfterDataBlocks, dctx))
        /\ ~dres.badlist

\* an interior block that is the rightmost of its level and holds one entry
LoneRightmost(d) ==
    \E b \in IndexBlocks(d) :
        /\ d.blocks[b].magic = "NODE"
        /\ d.blocks[b].forw = 0 /\ d.blocks[b].count = 1

\* a consistent index passes when every rightmost interior block holds two
\* entries or more, and is found bad and listed when one holds a single entry
ConsistentIndexPassesUnlessLoneRightmost ==
    NodeCheckCalled /\ ConsistentIndex(dir0) =>
        IF LoneRightmost(dir0)
        THEN /\ process_node_dir2(AfterDataBlocks, dctx).rval # 0
             /\ dres.badlist
        ELSE /\ NodeCheckPassed(AfterDataBlocks,
                                process_node_dir2(AfterDataBlocks, dctx))
             /\ ~dres.badlist

----------------------------------------------------------------------------
(* Properties of the walk along the forw pointers of the leaves.           *)

\* the number of places of s that hold x
TimesIn(s, x) == Cardinality({j \in 1..Len(s) : s[j] = x})

\* C40 (as stated): process_leaf_level_dir2 comes to an end for every block
\* map and block content, also when the forw pointers of the leaves form a
\* cycle or lead back to an earlier leaf, and the walk fails before a leaf
\* is visited a second time: no leaf is read twice.
C40_AsStated ==
    NodeCheckCalled =>
        \A b \in DOMAIN dir0.blocks :
            TimesIn(process_node_dir2(AfterDataBlocks, dctx).reads, b) <= 1

\* what is asked of the walk that ended in N
WalkEnds(d, N) ==
    /\ Len(N.reads) <= Cardinality(IndexBlocks(d)) + 1
    /\ \A b \in DOMAIN d.blocks :
          /\ TimesIn(N.walked, b) <= 1
          /\ TimesIn(N.reads, b) <= 2
          /\ TimesIn(N.reads, b) = 2 =>
                /\ N.reads[Len(N.reads)] = b
                /\ ~N.crashed /\ N.rval # 0
                /\ Len(N.walked) = Len(N.reads) - 1

\* C40: process_leaf_level_dir2 comes to an end for every block map and
\* block content, also when the forw pointers of the leaves form a cycle or
\* lead back to an earlier leaf. A leaf that forw leads back to is read a
\* second time, and that read is the last one: the walk fails there at the
\* hash order or the back pointer test, so that no leaf goes past the back
\* pointer test twice.
C40_WalkEnds ==
    NodeCheckCalled =>
        WalkEnds(dir0, process_node_dir2(AfterDataBlocks, dctx))

\* a leaf whose forw leads back to an earlier leaf with the same hash
\* values: the earlier leaf was read twice and the walk failed at its back
\* pointer
C40_Witness ==
    /\ NodeCheckCalled
    /\ \E b \in DOMAIN dir0.blocks :
          /\ dir0.blocks[b].magic = "LEAFN"
          /\ dir0.blocks[b].forw = 4 /\ b # 4
    /\ LET N == process_node_dir2(AfterDataBlocks, dctx)
       IN  /\ TimesIn(N.reads, 4) = 2
           /\ N.rval # 0 /\ ~N.crashed
           /\ process_leaf_block_dir2(dir0.blocks[4], 20, 20).rval = 0

====
